---- MODULE Spec2Model ----
(***************************************************************************)
(* github-auditor: the commit authenticity analysis of git_analyzer.py,    *)
(* the batch endpoint and the stored-profile endpoints of main.py, the    *)
(* profile store of database.py with the profile fetch of github_api.py,  *)
(* and the request throttle of rate_limiter.py.                            *)
(*                                                                         *)
(* One request to analyze_repository clones a remote repository into a    *)
(* temporary directory, reads its commit list, aggregates statistics,     *)
(* evaluates the seven red-flag rules, scores the repository, removes the *)
(* directory and returns a dictionary.  One request to                    *)
(* analyze_all_repositories does so for each repository of a user.  The   *)
(* stored-profile endpoints fetch a profile from GitHub and save it, read *)
(* it back and delete it.  The rate limiter admits or denies each request *)
(* of a client address and tells a denied client when to retry.           *)
(*                                                                         *)
(* Conventions of the model                                                *)
(*   - a Python dict is a record; `"k" in d` is  "k" \in DOMAIN d.        *)
(*   - a float that the code rounds to 2 decimals is kept as its number   *)
(*     of hundredths (0.8 is 80), so `x > 0.8` is  x > 80; one that it    *)
(*     rounds to 1 decimal is kept as its number of tenths.               *)
(*   - committed_date is counted in hours since the epoch, not seconds.   *)
(*   - a commit message is a sequence of tokens: words, " " and "\n".     *)
(*   - a flag's human-readable `message` text and the analyzed_at         *)
(*     timestamp of a result are not modelled.                             *)
(***************************************************************************)
EXTENDS Integers, Sequences, FiniteSets, TLC

VARIABLES
    pc,               \* "idle" before the request, "done" after it returned
    remote,           \* the remote repository the request was made for
    result,           \* the dictionary analyze_repository returned
    raised,           \* <<exception>> if one propagated to the caller, else <<>>
    temp_dir_exists,  \* whether the temporary clone directory is on disk
    github,           \* what the GitHub API answers to a batch request
    max_repos,        \* the max_repos parameter of the batch request
    response,         \* the HTTP response of the batch request
    analysis_count,   \* health_monitor.analysis_count
    error_count,      \* health_monitor.error_count
    now,              \* datetime.now(), in ticks of the clock
    requests,         \* RateLimiter.requests: ip -> list of admission times
    reply,            \* the last call of is_allowed: ip, time, what it returned
    admitted,         \* ip -> the times of all its admitted requests
    database,         \* the tables of github_auditor.db
    db_call,          \* the call of save_analysis or delete_profile that the
                      \* last request made: arguments, database before, result
    request,          \* the last HTTP request to a stored-profile endpoint
    request_count,    \* health_monitor.request_count
    disk,             \* the github_audit_ directories in the temp directory
    calls,            \* the concurrent invocations of analyze_repository
    made,             \* how many directories mkdtemp has made so far
    removed           \* the removals so far: who removed which directory

git_vars == <<pc, remote, result, raised, temp_dir_exists>>
batch_vars == <<github, max_repos, response, analysis_count, error_count>>
rate_vars == <<now, requests, reply, admitted>>
api_vars == <<database, db_call, request, request_count>>
clone_vars == <<disk, calls, made, removed>>

vars ==
    <<pc, remote, result, raised, temp_dir_exists, github, max_repos,
      response, analysis_count, error_count, now, requests, reply, admitted,
      database, db_call, request, request_count, disk, calls, made,
      removed>>

-----------------------------------------------------------------------------
(* Bounds of the explored inputs *)

MaxCommits == 101      \* longest commit list
MaxDays == 120         \* longest span between first and last commit, in days

(* Program constants *)

max_size_mb == 500
BaseScore == 50

-----------------------------------------------------------------------------
(* Small helpers *)

Max2(a, b) == IF a >= b THEN a ELSE b
Min2(a, b) == IF a <= b THEN a ELSE b

SetMax(S) == CHOOSE x \in S : \A y \in S : y <= x
SetMin(S) == CHOOSE x \in S : \A y \in S : y >= x

Range(s) == {s[i] : i \in 1..Len(s)}

\* s[1] + ... + s[i]
RECURSIVE sum_to(_, _)
sum_to(s, i) == IF i = 0 THEN 0 ELSE s[i] + sum_to(s, i - 1)

sum(s) == sum_to(s, Len(s))

-----------------------------------------------------------------------------
(* round(x, 2) for x = n/d >= 0, as a number of hundredths.               *)
(* Python rounds the exact value of the double to the nearest hundredth,  *)
(* half to even.  n/d is an exact tie only when it is m/200 with m odd;   *)
(* the double nearest to m/200 then lies above or below it (or on it,     *)
(* for the eighths), and TieRoundsUp lists the m in 1..199 for which      *)
(* round(m/200, 2) is the upper hundredth.  For a tie of 1 or more (only  *)
(* commits_per_day can be one) the direction is computed by               *)
(* tie_rounds_up, which agrees with the table below 1.                    *)

TieRoundsUp ==
    {1, 5, 7, 11, 13, 17, 19, 23, 27, 33, 39, 45, 51, 53, 55, 63, 65, 67,
     75, 77, 79, 81, 89, 91, 93, 101, 103, 105, 107, 109, 111, 127, 129,
     131, 133, 135, 137, 151, 153, 155, 157, 159, 161, 175, 177, 179, 181,
     183, 185, 187}

\* floor(log2(m/q)) for m, q > 0
RECURSIVE log2_floor(_, _)
log2_floor(m, q) ==
    IF m >= 2 * q THEN log2_floor(m, 2 * q) + 1
    ELSE IF m < q THEN log2_floor(2 * m, q) - 1
    ELSE 0

\* 2^e mod q
RECURSIVE pow2_mod(_, _)
pow2_mod(e, q) == IF e = 0 THEN 1 % q ELSE (2 * pow2_mod(e - 1, q)) % q

\* Whether round() takes the tie (2f+1)/q, halfway between f and f+1 units,
\* to f+1.  The double of the tie has a 53-bit mantissa: it is the tie
\* scaled by 2^e, e = 52 - floor(log2 of the tie), rounded to an integer.
\* What the scaling leaves behind modulo q tells whether the double lies
\* above the tie (round up), below it (round down) or on it (half to even).
tie_rounds_up(f, q) ==
    LET m == 2 * f + 1
        left == ((m % q) * pow2_mod(52 - log2_floor(m, q), q)) % q
    IN  IF left = 0 THEN f % 2 = 1 ELSE 2 * left > q

Round2(n, d) ==
    LET f == (100 * n) \div d
        r == (100 * n) % d
    IN  IF 2 * r < d THEN f
        ELSE IF 2 * r > d THEN f + 1
        ELSE IF 2 * f + 1 < 200
             THEN (IF (2 * f + 1) \in TieRoundsUp THEN f + 1 ELSE f)
        ELSE IF tie_rounds_up(f, 200) THEN f + 1 ELSE f

\* round(x, 1) for x = n/d >= 0, as a number of tenths.  n/d is an exact tie
\* when it is m/20 with m odd; tie_rounds_up tells which way its double goes.
Round1(n, d) ==
    LET f == (10 * n) \div d
        r == (10 * n) % d
    IN  IF 2 * r < d THEN f
        ELSE IF 2 * r > d THEN f + 1
        ELSE IF tie_rounds_up(f, 20) THEN f + 1 ELSE f

-----------------------------------------------------------------------------
(* Strings of commit messages: str.strip, str.split('\n')[0], str.lower   *)

Whitespace == {" ", "\n"}

RECURSIVE lstrip(_)
lstrip(s) ==
    IF s # <<>> /\ Head(s) \in Whitespace THEN lstrip(Tail(s)) ELSE s

RECURSIVE rstrip(_)
rstrip(s) ==
    IF s # <<>> /\ s[Len(s)] \in Whitespace
    THEN rstrip(SubSeq(s, 1, Len(s) - 1)) ELSE s

strip(s) == rstrip(lstrip(s))

\* s.split('\n')[0]: the tokens before the first newline
RECURSIVE first_line(_)
first_line(s) ==
    IF s = <<>> \/ Head(s) = "\n" THEN <<>>
    ELSE <<Head(s)>> \o first_line(Tail(s))

lower_word(w) ==
    CASE w = "Update" -> "update"
      [] w = "UPDATE" -> "update"
      [] w = "Fix" -> "fix"
      [] w = "Initial" -> "initial"
      [] w = "Commit" -> "commit"
      [] w = "First" -> "first"
      [] w = "Add" -> "add"
      [] OTHER -> w

lower(s) == [i \in 1..Len(s) |-> lower_word(s[i])]

GenericMessages ==
    {<<"initial", " ", "commit">>, <<"update">>, <<"fix">>, <<"commit">>,
     <<".">>, <<"first", " ", "commit">>}

-----------------------------------------------------------------------------
(* datetime.fromtimestamp(committed_date): hour of day and weekday name   *)

hour_of(ts) == ts % 24

Weekdays ==
    <<"Thursday", "Friday", "Saturday", "Sunday", "Monday", "Tuesday",
      "Wednesday">>

weekday_of(ts) == Weekdays[((ts \div 24) % 7) + 1]

\* a slip: a started day counted as a whole one
timedelta_days_rounded_up(first, last) == (last - first + 23) \div 24

\* (last_commit - first_commit).days
timedelta_days(first, last) == (last - first) \div 24

-----------------------------------------------------------------------------
(* analyze_commits: the statistics of a commit list                        *)

\* a slip: a commit whose stats cannot be read is taken to have changed no
\* line
commit_sizes_with_zeros(commits) ==
    [i \in 1..Len(commits) |->
        IF commits[i].lines # <<>> THEN commits[i].lines[1] ELSE 0]

\* commit_sizes: a commit whose stats cannot be read (lines = <<>>) is skipped
commit_sizes(commits) ==
    LET known == SelectSeq(commits, LAMBDA c : c.lines # <<>>)
    IN  [i \in 1..Len(known) |-> known[i].lines[1]]

\* the k-th smallest element of a non-empty list
kth_smallest(sizes, k) ==
    CHOOSE v \in Range(sizes) :
        /\ Cardinality({i \in 1..Len(sizes) : sizes[i] < v}) < k
        /\ k <= Cardinality({i \in 1..Len(sizes) : sizes[i] <= v})

\* round(statistics.mean(sizes), 1), in tenths
mean_tenths(sizes) == Round1(sum(sizes), Len(sizes))

\* round(statistics.median(sizes), 1), in tenths: the middle element, or the
\* mean of the two middle elements
median_tenths(sizes) ==
    LET n == Len(sizes)
    IN  IF n % 2 = 1
        THEN 10 * kth_smallest(sizes, (n + 1) \div 2)
        ELSE 5 * (kth_smallest(sizes, n \div 2)
                    + kth_smallest(sizes, n \div 2 + 1))

\* commit_messages: first line of the stripped message
commit_messages(commits) ==
    [i \in 1..Len(commits) |-> first_line(strip(commits[i].message))]

\* what a commit is counted under in authors, commit_hours and commit_days
key_of(c, dict) ==
    CASE dict = "authors" -> c.author
      [] dict = "commit_hours" -> hour_of(c.committed_date)
      [] dict = "commit_days" -> weekday_of(c.committed_date)

\* a defaultdict(int) filled in one pass: key -> number of commits with that key
count_by(commits, dict) ==
    [k \in {key_of(commits[i], dict) : i \in 1..Len(commits)} |->
        Cardinality({i \in 1..Len(commits) : key_of(commits[i], dict) = k})]

\* position of the first commit with key k: where k enters the dict
first_seen(commits, dict, k) ==
    SetMin({i \in 1..Len(commits) : key_of(commits[i], dict) = k})

\* a slip: of several maximal items the one that entered the dict last
argmax_key_last(commits, dict) ==
    LET d == count_by(commits, dict)
        m == SetMax({d[k] : k \in DOMAIN d})
        best == {k \in DOMAIN d : d[k] = m}
    IN  CHOOSE k \in best :
            \A k2 \in best :
                first_seen(commits, dict, k) >= first_seen(commits, dict, k2)

\* max(d.items(), key=lambda x: x[1])[0]: dicts keep insertion order and max
\* keeps the first maximal item, so this is the maximal key that entered the
\* dict first
argmax_key(commits, dict) ==
    LET d == count_by(commits, dict)
        m == SetMax({d[k] : k \in DOMAIN d})
        best == {k \in DOMAIN d : d[k] = m}
    IN  CHOOSE k \in best :
            \A k2 \in best :
                first_seen(commits, dict, k) <= first_seen(commits, dict, k2)

\* a slip: max(commit_hours), the latest hour that has a commit
max_hour_commits_of_keys(commit_hours) == SetMax(DOMAIN commit_hours)

\* max(commit_hours.values())
max_hour_commits(commit_hours) ==
    SetMax({commit_hours[h] : h \in DOMAIN commit_hours})

\* lines 106-189: the statistics of a commit list
commit_statistics(commits) ==
    LET total_commits == Len(commits)
        authors == count_by(commits, "authors")
        commit_dates == {commits[i].committed_date : i \in 1..total_commits}
        commit_hours == count_by(commits, "commit_hours")
        commit_days == count_by(commits, "commit_days")
        sizes == commit_sizes(commits)
        messages == commit_messages(commits)
    IN  IF commit_dates = {}
        THEN [error |-> <<"Could not analyze commits">>]
        ELSE
        LET first_commit == SetMin(commit_dates)
            last_commit == SetMax(commit_dates)
            days_active == timedelta_days(first_commit, last_commit)
            generic_messages ==
                Cardinality({i \in 1..total_commits :
                                lower(messages[i]) \in GenericMessages})
        IN  [total_commits |-> total_commits,
             unique_authors |-> Cardinality(DOMAIN authors),
             top_author |-> argmax_key(commits, "authors"),
             top_author_commits |->
                 SetMax({authors[a] : a \in DOMAIN authors}),
             first_commit_date |-> first_commit,
             last_commit_date |-> last_commit,
             days_active |-> Max2(days_active, 1),
             commits_per_day |->
                 Round2(total_commits, Max2(days_active, 1)),
             most_active_hour |-> argmax_key(commits, "commit_hours"),
             most_active_day |-> argmax_key(commits, "commit_days"),
             hour_concentration |->
                 Round2(max_hour_commits(commit_hours), total_commits),
             avg_commit_size |->
                 IF sizes # <<>> THEN mean_tenths(sizes) ELSE 0,
             max_commit_size |->
                 IF sizes # <<>> THEN SetMax(Range(sizes)) ELSE 0,
             median_commit_size |->
                 IF sizes # <<>> THEN median_tenths(sizes) ELSE 0,
             generic_message_ratio |->
                 Round2(generic_messages, total_commits),
             commit_hours_distribution |-> commit_hours,
             commit_days_distribution |-> commit_days,
             authors |-> authors]

\* the dictionary returned when the try block raises (lines 191-192)
analysis_failed == [error |-> <<"Commit analysis failed: ", "Exception">>]

\* a slip: the `total_commits == 0` early return is missing
analyze_commits_without_empty_check(repo) ==
    IF repo.fault THEN analysis_failed ELSE commit_statistics(repo.commits)

analyze_commits(repo) ==
    IF repo.fault
    THEN analysis_failed
    ELSE IF Len(repo.commits) = 0
    THEN [total_commits |-> 0, error |-> <<"No commits found">>]
    ELSE commit_statistics(repo.commits)

-----------------------------------------------------------------------------
(* detect_red_flags: seven rules, each appending at most one flag          *)

\* dict.get(key, default)
Get(d, k, default) == IF k \in DOMAIN d THEN d[k] ELSE default

Flag(type, severity, score_impact) ==
    [type |-> type, severity |-> severity, score_impact |-> score_impact]

\* a slip: the threshold of low_activity set at 3 commits
rule_low_activity_below_three(ca) ==
    IF ca.total_commits < 3
    THEN <<Flag("low_activity", "medium", -15)>> ELSE <<>>

rule_low_activity(ca) ==
    IF ca.total_commits < 5
    THEN <<Flag("low_activity", "medium", -15)>> ELSE <<>>

rule_no_collaboration(ca) ==
    IF ca.unique_authors = 1 /\ ca.total_commits > 5
    THEN <<Flag("no_collaboration", "low", -5)>> ELSE <<>>

\* a slip: the rule skips a history of a single commit
rule_suspicious_timing_of_several(ca) ==
    IF ca.total_commits > 1 /\ Get(ca, "hour_concentration", 0) > 80
    THEN <<Flag("suspicious_timing", "high", -25)>> ELSE <<>>

rule_suspicious_timing(ca) ==
    IF Get(ca, "hour_concentration", 0) > 80
    THEN <<Flag("suspicious_timing", "high", -25)>> ELSE <<>>

rule_bulk_upload(ca) ==
    IF Get(ca, "max_commit_size", 0) > 1000
    THEN <<Flag("bulk_upload", "high", -20)>> ELSE <<>>

\* a slip: the threshold of burst_activity set at 3 days
rule_burst_activity_below_three(ca) ==
    IF ca.total_commits > 20 /\ ca.days_active < 3
    THEN <<Flag("burst_activity", "high", -25)>> ELSE <<>>

rule_burst_activity(ca) ==
    IF ca.total_commits > 20 /\ ca.days_active < 7
    THEN <<Flag("burst_activity", "high", -25)>> ELSE <<>>

rule_generic_messages(ca) ==
    IF Get(ca, "generic_message_ratio", 0) > 50
    THEN <<Flag("generic_messages", "medium", -10)>> ELSE <<>>

\* a slip: the threshold of dominated_repo set at 0.9
rule_dominated_repo_at_ninety(ca) ==
    IF ca.unique_authors > 1
       /\ 10 * ca.top_author_commits > 9 * ca.total_commits
    THEN <<Flag("dominated_repo", "low", -5)>> ELSE <<>>

\* top_author_ratio = top_author_commits / total_commits is not rounded; the
\* float quotient exceeds the double 0.95 exactly when the fraction exceeds
\* 19/20 (division is correctly rounded and 19/20 itself gives that double)
rule_dominated_repo(ca) ==
    IF ca.unique_authors > 1
       /\ 20 * ca.top_author_commits > 19 * ca.total_commits
    THEN <<Flag("dominated_repo", "low", -5)>> ELSE <<>>

\* a slip: the bulk_upload rule placed before the suspicious_timing rule
detect_red_flags_reordered(ca) ==
    IF "error" \in DOMAIN ca THEN <<>>
    ELSE rule_low_activity(ca) \o rule_no_collaboration(ca)
         \o rule_bulk_upload(ca) \o rule_suspicious_timing(ca)
         \o rule_burst_activity(ca) \o rule_generic_messages(ca)
         \o rule_dominated_repo(ca)

\* a slip: the rules chained with elif, so that the first rule that fires
\* hides the later ones
detect_red_flags_elif(ca) ==
    LET all == rule_low_activity(ca) \o rule_no_collaboration(ca)
               \o rule_suspicious_timing(ca) \o rule_bulk_upload(ca)
               \o rule_burst_activity(ca) \o rule_generic_messages(ca)
               \o rule_dominated_repo(ca)
    IN  IF "error" \in DOMAIN ca \/ all = <<>> THEN <<>> ELSE <<Head(all)>>

detect_red_flags(ca) ==
    IF "error" \in DOMAIN ca THEN <<>>
    ELSE rule_low_activity(ca) \o rule_no_collaboration(ca)
         \o rule_suspicious_timing(ca) \o rule_bulk_upload(ca)
         \o rule_burst_activity(ca) \o rule_generic_messages(ca)
         \o rule_dominated_repo(ca)

-----------------------------------------------------------------------------
(* calculate_repo_authenticity_score                                       *)

\* for flag in red_flags: score += flag["score_impact"]
RECURSIVE apply_penalties(_, _)
apply_penalties(score, flags) ==
    IF flags = <<>> THEN score
    ELSE apply_penalties(score + Head(flags).score_impact, Tail(flags))

\* a slip: the score returned as computed
clamp_missing(score) == score

\* max(0, min(100, score))
clamp(score) == Max2(0, Min2(100, score))

\* a slip: `elif` for the second bonus of a pair, so that the bonuses for
\* 50 commits and for 90 days replace the ones for 10 commits and 30 days
calculate_repo_authenticity_score_elif(ca, flags) ==
    IF "error" \in DOMAIN ca THEN 0
    ELSE
    LET s0 == BaseScore
        s2 == IF ca.total_commits >= 50 \/ ca.total_commits >= 10
              THEN s0 + 10 ELSE s0
        s3 == IF ca.unique_authors > 1 THEN s2 + 10 ELSE s2
        s5 == IF ca.days_active > 90 THEN s3 + 5
              ELSE IF ca.days_active > 30 THEN s3 + 10 ELSE s3
        s6 == IF Get(ca, "generic_message_ratio", 100) < 30
              THEN s5 + 5 ELSE s5
    IN  clamp(apply_penalties(s6, flags))

calculate_repo_authenticity_score(ca, flags) ==
    IF "error" \in DOMAIN ca THEN 0
    ELSE
    LET s0 == BaseScore
        s1 == IF ca.total_commits >= 10 THEN s0 + 10 ELSE s0
        s2 == IF ca.total_commits >= 50 THEN s1 + 10 ELSE s1
        s3 == IF ca.unique_authors > 1 THEN s2 + 10 ELSE s2
        s4 == IF ca.days_active > 30 THEN s3 + 10 ELSE s3
        s5 == IF ca.days_active > 90 THEN s4 + 5 ELSE s4
        s6 == IF Get(ca, "generic_message_ratio", 100) < 30
              THEN s5 + 5 ELSE s5
    IN  clamp(apply_penalties(s6, flags))

-----------------------------------------------------------------------------
(* clone_repository and analyze_repository                                 *)

GitAnalysisError(msg) == [type |-> "GitAnalysisError", msg |-> msg]

\* The outcome of clone_repository(repo_url): either the cloned repository or
\* the exception it raises, and whether the directory made by mkdtemp is
\* still on disk.  A GitAnalysisError raised for an oversized repository is
\* raised inside the try block, so the `except Exception` clause catches it
\* and raises a second GitAnalysisError around its text.
clone_repository(rm) ==
    IF rm.clone = "git_error"
    THEN [raised |-> <<GitAnalysisError(
                         <<"Failed to clone repository: ", "GitCommandError">>)>>,
          temp_dir_exists |-> FALSE]
    ELSE IF rm.clone = "os_error"
    THEN [raised |-> <<GitAnalysisError(
                         <<"Unexpected error during clone: ", "OSError">>)>>,
          temp_dir_exists |-> FALSE]
    ELSE IF rm.size_mb > max_size_mb
    THEN [raised |-> <<GitAnalysisError(
                         <<"Unexpected error during clone: ",
                           "Repository too large: ", ToString(rm.size_mb),
                           "MB">>)>>,
          temp_dir_exists |-> FALSE]
    ELSE [raised |-> <<>>, repo |-> rm, temp_dir_exists |-> TRUE]

NoResult == [pending |-> TRUE]

\* lines 342-357: the dictionary returned for a cloned repository
analysis_of(repo_url, repo) ==
    LET commit_analysis == analyze_commits(repo)
        red_flags == detect_red_flags(commit_analysis)
        authenticity_score ==
            calculate_repo_authenticity_score(commit_analysis, red_flags)
    IN  [repository_url |-> repo_url,
         commit_analysis |-> commit_analysis,
         red_flags |-> red_flags,
         authenticity_score |-> authenticity_score]

\* a slip: no `except GitAnalysisError` clause, the exception leaves the
\* function
analyze_repository_without_except(rm) ==
    LET cl == clone_repository(rm)
    IN  IF cl.raised # <<>>
        THEN [result |-> NoResult,
              raised |-> cl.raised,
              temp_dir_exists |-> cl.temp_dir_exists]
        ELSE [result |-> analysis_of(rm.url, cl.repo),
              raised |-> <<>>,
              temp_dir_exists |-> FALSE]

\* The outcome of analyze_repository(repo_url): the returned dictionary, the
\* exception that leaves the function if any, and the state of the temporary
\* directory after the finally block (rmtree is taken to succeed).  When the
\* clone raised, temp_dir is still None and the finally block removes nothing.
analyze_repository(rm) ==
    LET cl == clone_repository(rm)
    IN  IF cl.raised # <<>>
        THEN IF cl.raised[1].type = "GitAnalysisError"
             THEN [result |-> [repository_url |-> rm.url,
                               error |-> cl.raised[1].msg],
                   raised |-> <<>>,
                   temp_dir_exists |-> cl.temp_dir_exists]
             ELSE [result |-> NoResult,
                   raised |-> cl.raised,
                   temp_dir_exists |-> cl.temp_dir_exists]
        ELSE [result |-> analysis_of(rm.url, cl.repo),
              raised |-> <<>>,
              temp_dir_exists |-> FALSE]

-----------------------------------------------------------------------------
(* The remote repositories a request may name                              *)

RepoUrl == "https://github.com/octocat/Hello-World"

\* messages of commits meant to read as generic, and of the others
GenericSamples ==
    << <<"update">>,
       <<"Fix", "\n", "\n", "details">>,
       <<" ", "Initial", " ", "commit", "\n">> >>

PlainSamples ==
    << <<"Add", " ", "parser">>,
       <<"update", " ", "\n", "body">>,
       <<>> >>

\* committed_date of the early commits: 10:00 on day 0
T1 == 10

\* distance in hours from the early commits to the late ones
Deltas ==
    {1, 6 * 24, 7 * 24 + 1, 31 * 24 + 1, 91 * 24, MaxDays * 24 + 2}

SizeModes == {"unknown", "small", "limit", "bulk"}

\* A history of n commits: the first ka by alice and the rest by bob; the
\* first kt at T1 and the rest delta hours later; the first kg with a
\* generic-looking message; line counts by mode.
History(n, ka, kt, delta, kg, mode) ==
    [i \in 1..n |->
        [author |-> IF i <= ka THEN "alice" ELSE "bob",
         committed_date |-> IF i <= kt THEN T1 ELSE T1 + delta,
         lines |-> CASE mode = "unknown" -> <<>>
                     [] mode = "small" -> <<40>>
                     [] mode = "limit" -> <<1000>>
                     [] mode = "bulk" -> IF i = 1 THEN <<1001>> ELSE <<40>>,
         message |-> IF i <= kg THEN GenericSamples[(i % 3) + 1]
                     ELSE PlainSamples[(i % 3) + 1]]]

\* lengths on both sides of every threshold of the rules and bonuses, and
\* lengths (8, 40) at which a ratio falls exactly between two hundredths
Totals ==
    {0, 1, 3, 4, 5, 6, 8, 9, 10, 20, 21, 25, 27, 40, 41, 49, 50, 60,
     MaxCommits}

AuthorCuts(n) == {n, n - 1, n \div 2} \cap 1..n
HourCuts(n) == {n, (4 * n) \div 5 + 1, n \div 2} \cap 1..n
GenericCuts(n) == {0, n, n \div 2 + 1, (3 * n) \div 10} \cap 0..n

\* the distances that make different histories: none matters when all the
\* commits are early ones
DeltasFor(n, kt) == IF kt = n THEN {1} ELSE Deltas

\* the parameters <<n, ka, kt, delta, kg, mode>> of the histories explored
ParamsOf(n) ==
    UNION {{n} \X AuthorCuts(n) \X {kt} \X DeltasFor(n, kt) \X GenericCuts(n)
               \X SizeModes : kt \in HourCuts(n)}

HistoryParams == UNION {ParamsOf(n) : n \in Totals \ {0}}

HistoryOf(p) ==
    IF p = <<>> THEN <<>> ELSE History(p[1], p[2], p[3], p[4], p[5], p[6])

SmallHistory == History(3, 3, 3, 1, 3, "small")

\* six commits shared by two authors, in two hours of one day, none with a
\* generic message: no red flag, two bonuses
SharedHistory == History(6, 3, 3, 1, 0, "small")

Remote(clone, size_mb, fault, commits) ==
    [url |-> RepoUrl, clone |-> clone, size_mb |-> size_mb, fault |-> fault,
     commits |-> commits]

\* remotes that cannot be cloned, are at or over the size limit, or make the
\* commit walk raise
FailingRemotes ==
    {Remote(c, 1, FALSE, <<>>) : c \in {"git_error", "os_error"}}
    \cup {Remote("ok", mb, FALSE, SmallHistory) :
            mb \in {max_size_mb, max_size_mb + 1}}
    \cup {Remote("ok", 1, TRUE, h) : h \in {<<>>, SmallHistory}}

-----------------------------------------------------------------------------
(* rate_limiter.py: RateLimiter                                            *)

\* datetime.now() is read in instants, InstantsPerSecond of them a second;
\* the clock of SpecRate ticks TicksPerHour times an hour and stops after
\* MaxTime ticks, the clock of SpecRetry runs instant by instant for
\* MaxMoments instants
InstantsPerSecond == 2
TicksPerHour == 2
MaxTime == 5
MaxMoments == 3

second == InstantsPerSecond
hour == 3600 * second
tick == hour \div TicksPerHour

\* RateLimiter(max_requests, window_hours)
max_requests == 2
window_hours == 1

\* timedelta(hours=self.window_hours), in instants
window == window_hours * hour

\* int(delta.total_seconds()) of a timedelta that is not negative: the whole
\* seconds of it, the fraction cut off
int_total_seconds(delta) == delta \div second

\* _clean_old_requests(ip) at time t: the list of ip without the requests
\* made at or before t - window
clean_old_requests(reqs, ip, t) ==
    LET cutoff_time == t - window
    IN  [reqs EXCEPT ![ip] = SelectSeq(@, LAMBDA req_time : req_time > cutoff_time)]

\* a slip: the limit tested with > where >= is meant
is_allowed_one_more(reqs, ip, t) ==
    LET cleaned == clean_old_requests(reqs, ip, t)
        current_count == Len(cleaned[ip])
    IN  IF current_count > max_requests
        THEN [requests |-> cleaned,
              allowed |-> FALSE,
              remaining |-> 0,
              reset_seconds |->
                  int_total_seconds(SetMin(Range(cleaned[ip])) + window - t)]
        ELSE [requests |-> [cleaned EXCEPT ![ip] = Append(@, t)],
              allowed |-> TRUE,
              remaining |-> max_requests - current_count - 1,
              reset_seconds |-> window_hours * 3600]

\* is_allowed(ip) at time t: the request lists afterwards and the returned
\* (allowed, remaining, reset_seconds).  The calls of datetime.now() within
\* one call of is_allowed are taken to return the same time.
is_allowed(reqs, ip, t) ==
    LET cleaned == clean_old_requests(reqs, ip, t)
        current_count == Len(cleaned[ip])
    IN  IF current_count >= max_requests
        THEN [requests |-> cleaned,
              allowed |-> FALSE,
              remaining |-> 0,
              reset_seconds |->
                  int_total_seconds(SetMin(Range(cleaned[ip])) + window - t)]
        ELSE [requests |-> [cleaned EXCEPT ![ip] = Append(@, t)],
              allowed |-> TRUE,
              remaining |-> max_requests - current_count - 1,
              reset_seconds |-> window_hours * 3600]

-----------------------------------------------------------------------------
(* main.py, analyze_all_repositories: the batch endpoint                   *)

MAX_REPOS_PER_ANALYSIS == 10

\* repositories above this size in KB are skipped (line 335)
SkipSizeKb == 100000

HTTPException(status_code, detail) ==
    [status_code |-> status_code, detail |-> detail]

\* database.save_repository_analysis(...): database.py defines no function
\* of this name, so evaluating the attribute raises AttributeError
save_repository_analysis ==
    [raised |-> <<[type |-> "AttributeError",
                   msg |-> <<"module 'database' has no attribute ",
                             "'save_repository_analysis'">>]>>]

\* a slip: no `except Exception` clause, whatever is raised leaves the body
entry_of_without_except(repo_name, out) ==
    IF out.raised # <<>>
    THEN [raised |-> out.raised]
    ELSE IF "error" \notin DOMAIN out.result
    THEN IF save_repository_analysis.raised # <<>>
         THEN [raised |-> save_repository_analysis.raised]
         ELSE [entry |-> [repo_name |-> repo_name, analysis |-> out.result],
               raised |-> <<>>]
    ELSE [entry |-> [repo_name |-> repo_name, error |-> out.result.error],
          raised |-> <<>>]

\* lines 345-356: the entry appended for a repository for which
\* analyze_repository came back with `out`, or the exception that leaves the
\* loop body
entry_of(repo_name, out) ==
    IF out.raised # <<>>
    THEN [entry |-> [repo_name |-> repo_name, error |-> out.raised[1].msg],
          raised |-> <<>>]
    ELSE IF "error" \notin DOMAIN out.result
    THEN IF save_repository_analysis.raised # <<>>
         THEN [entry |-> [repo_name |-> repo_name,
                          error |-> save_repository_analysis.raised[1].msg],
               raised |-> <<>>]
         ELSE [entry |-> [repo_name |-> repo_name, analysis |-> out.result],
               raised |-> <<>>]
    ELSE [entry |-> [repo_name |-> repo_name, error |-> out.result.error],
          raised |-> <<>>]

\* lines 329-356, the body of the loop: a repository above the size limit
\* is skipped (the `reason` text of its entry is not modelled), any other
\* is analysed
repo_entry(repo) ==
    IF Get(repo, "size", 0) > SkipSizeKb
    THEN [entry |-> [repo_name |-> repo.name, skipped |-> TRUE],
          raised |-> <<>>]
    ELSE entry_of(repo.name, analyze_repository(repo.clone_url))

\* repos[:max_repos] for max_repos >= 0
slice_to(repos, n) == SubSeq(repos, 1, Min2(n, Len(repos)))

\* lines 328-356, the loop: repo_analyses, and the exception that ended the
\* loop early if one left its body
RECURSIVE for_each_repo(_, _)

\* the loop after the entry e of the first of repos
after_entry(repos, repo_analyses, e) ==
    IF e.raised # <<>>
    THEN [repo_analyses |-> repo_analyses, raised |-> e.raised]
    ELSE for_each_repo(Tail(repos), Append(repo_analyses, e.entry))

for_each_repo(repos, repo_analyses) ==
    IF repos = <<>>
    THEN [repo_analyses |-> repo_analyses, raised |-> <<>>]
    ELSE after_entry(repos, repo_analyses, repo_entry(Head(repos)))

\* lines 359-363
valid_scores(repo_analyses) ==
    LET valid == SelectSeq(repo_analyses,
                           LAMBDA r : /\ "analysis" \in DOMAIN r
                                      /\ "error" \notin DOMAIN r.analysis)
    IN  [i \in 1..Len(valid) |-> valid[i].analysis.authenticity_score]

\* line 365
overall_score(repo_analyses) ==
    LET scores == valid_scores(repo_analyses)
    IN  IF scores # <<>> THEN sum(scores) \div Len(scores) ELSE 0

\* lines 358-421 and 431-435: the response after the loop
response_after(loop) ==
    IF loop.raised # <<>>
    THEN [response |->
              HTTPException(500, <<"Analysis failed: ">> \o loop.raised[1].msg),
          analyses |-> 0, errors |-> 1]
    ELSE [response |->
              [status_code |-> 200,
               repositories_analyzed |-> Len(loop.repo_analyses),
               repository_analyses |-> loop.repo_analyses,
               overall_authenticity_score |->
                   overall_score(loop.repo_analyses)],
          analyses |-> 1, errors |-> 0]

\* The outcome of analyze_all_repositories(username, max_repos) when the
\* GitHub API answers gh: the response and the increments of the two health
\* counters.  The profile, the statistics, the timing fields and the
\* ai_insights of the response body are not modelled.
analyze_all_repositories(gh, n) ==
    IF n > MAX_REPOS_PER_ANALYSIS
    THEN [response |-> HTTPException(400, <<"max_repos cannot exceed">>),
          analyses |-> 0, errors |-> 0]
    ELSE IF gh.profile = "not_found"
    THEN [response |-> HTTPException(404, <<"User not found on GitHub">>),
          analyses |-> 0, errors |-> 1]
    ELSE IF gh.profile = "api_error"
    THEN [response |-> HTTPException(500, <<"GitHub API error">>),
          analyses |-> 0, errors |-> 1]
    ELSE response_after(for_each_repo(slice_to(gh.repos, n), <<>>))

-----------------------------------------------------------------------------
(* github_api.py: the profile and the statistics of a user                 *)

\* Python's None
None == "None"

\* a Python dict whose order of insertion matters is a sequence of
\* <<key, value>> pairs; dict.get(key, 0) of one with integer values
count_of(dict, key) ==
    LET at == {i \in 1..Len(dict) : dict[i][1] = key}
    IN  IF at = {} THEN 0 ELSE dict[CHOOSE i \in at : TRUE][2]

\* dict[key] = value
dict_set(dict, key, value) ==
    IF \E i \in 1..Len(dict) : dict[i][1] = key
    THEN [i \in 1..Len(dict) |->
              IF dict[i][1] = key THEN <<key, value>> ELSE dict[i]]
    ELSE Append(dict, <<key, value>>)

\* lines 158-165: languages, the repositories counted by language in the
\* order in which the languages are first met
RECURSIVE count_languages(_, _)

count_languages(repos, languages) ==
    IF repos = <<>>
    THEN languages
    ELSE LET lang == Head(repos).language
         IN  count_languages(
                 Tail(repos),
                 IF lang # None
                 THEN dict_set(languages, lang, count_of(languages, lang) + 1)
                 ELSE languages)

\* line 176: max(languages.items(), key=lambda x: x[1])[0], the first of the
\* languages with the highest count
most_used_language(languages) ==
    LET best == SetMax({languages[i][2] : i \in 1..Len(languages)})
        first == SetMin({i \in 1..Len(languages) : languages[i][2] = best})
    IN  languages[first][1]

\* extract_profile_data(raw_data)
extract_profile_data(raw_data) ==
    [username |-> raw_data.login,
     name |-> raw_data.name,
     bio |-> raw_data.bio,
     location |-> raw_data.location,
     email |-> raw_data.email,
     blog |-> raw_data.blog,
     company |-> raw_data.company,
     public_repos |-> raw_data.public_repos,
     public_gists |-> raw_data.public_gists,
     followers |-> raw_data.followers,
     following |-> raw_data.following,
     created_at |-> raw_data.created_at,
     updated_at |-> raw_data.updated_at,
     profile_url |-> raw_data.html_url,
     avatar_url |-> raw_data.avatar_url]

\* calculate_basic_stats(repos); the statistics of an empty listing have no
\* fork_ratio
calculate_basic_stats(repos) ==
    IF repos = <<>>
    THEN [total_repos |-> 0,
          total_stars |-> 0,
          total_forks |-> 0,
          languages |-> <<>>,
          most_used_language |-> None,
          average_stars |-> 0,
          forked_repos |-> 0,
          original_repos |-> 0]
    ELSE LET total_stars ==
                 sum([i \in 1..Len(repos) |-> repos[i].stargazers_count])
             total_forks ==
                 sum([i \in 1..Len(repos) |-> repos[i].forks_count])
             languages == count_languages(repos, <<>>)
             forked_count == Len(SelectSeq(repos, LAMBDA r : r.fork))
         IN  [total_repos |-> Len(repos),
              total_stars |-> total_stars,
              total_forks |-> total_forks,
              languages |-> languages,
              most_used_language |->
                  IF languages # <<>>
                  THEN most_used_language(languages) ELSE None,
              average_stars |-> total_stars \div Len(repos),
              forked_repos |-> forked_count,
              original_repos |-> Len(repos) - forked_count,
              fork_ratio |-> Round2(forked_count, Len(repos))]

GitHubAPIError(msg) == [type |-> "GitHubAPIError", msg |-> msg]

\* analyze_github_user(username) when the GitHub API answers gh: the
\* analysis, or the GitHubAPIError that fetch_user_profile or
\* fetch_user_repositories raises
analyze_github_user(username, gh) ==
    IF gh.profile = "not_found"
    THEN [raised |-> <<GitHubAPIError(<<"User '", username,
                                        "' not found on GitHub">>)>>]
    ELSE IF gh.profile = "api_error"
    THEN [raised |-> <<GitHubAPIError(<<"GitHub API error: ", "502">>)>>]
    ELSE IF gh.listing = "api_error"
    THEN [raised |-> <<GitHubAPIError(<<"Failed to fetch repositories: ",
                                        "502">>)>>]
    ELSE [analysis |-> [profile |-> extract_profile_data(gh.raw_profile),
                        statistics |-> calculate_basic_stats(gh.repos),
                        repositories_analyzed |-> Len(gh.repos)],
          raised |-> <<>>]

-----------------------------------------------------------------------------
(* database.py: two tables in one SQLite file                              *)

\* The database: the rows of profiles and of statistics in the order of
\* their rowids, and the last id that AUTOINCREMENT gave out.  A statement
\* that SQLite fails (database locked, disk full) is named by `fault`;
\* SELECT statements are taken to succeed.
EmptyDatabase == [profiles |-> <<>>, statistics |-> <<>>, sqlite_sequence |-> 0]

\* cursor.fetchone() found no row: get_profile and get_latest_statistics
\* return None, which their callers test with `if not profile`
NoRow == <<>>

\* json.dumps of a dict from strings to integers: "{", then key, ":" and
\* value for each item, "," between the items, then "}"
RECURSIVE json_items(_)

json_items(dict) ==
    IF dict = <<>>
    THEN <<>>
    ELSE <<dict[1][1], ":", dict[1][2]>>
         \o (IF Len(dict) > 1 THEN <<",">> ELSE <<>>)
         \o json_items(Tail(dict))

json_dumps(dict) == <<"{">> \o json_items(dict) \o <<"}">>

\* json.loads of such a text: the items between the braces, each 4 tokens
\* on from the one before
json_loads(text) ==
    [i \in 1..(Len(text) \div 4) |-> <<text[4 * i - 2], text[4 * i]>>]

\* INSERT OR REPLACE INTO profiles: the row that has the same primary key
\* goes, the new row is put in
insert_or_replace_profile(db, row) ==
    [db EXCEPT !.profiles =
        Append(SelectSeq(@, LAMBDA r : r.username # row.username), row)]

\* INSERT INTO statistics, id given by AUTOINCREMENT
insert_statistics(db, row) ==
    [db EXCEPT !.statistics = Append(@, [id |-> db.sqlite_sequence + 1] @@ row),
               !.sqlite_sequence = @ + 1]

\* lines 101-116: the values of the profile row
profile_row(profile, timestamp) ==
    [username |-> profile.username,
     name |-> Get(profile, "name", None),
     bio |-> Get(profile, "bio", None),
     location |-> Get(profile, "location", None),
     email |-> Get(profile, "email", None),
     company |-> Get(profile, "company", None),
     blog |-> Get(profile, "blog", None),
     public_repos |-> profile.public_repos,
     followers |-> profile.followers,
     following |-> profile.following,
     created_at |-> profile.created_at,
     profile_url |-> profile.profile_url,
     avatar_url |-> Get(profile, "avatar_url", None),
     analyzed_at |-> timestamp]

\* the keys of stats that lines 127-135 read
StatisticsKeys ==
    {"total_repos", "total_stars", "total_forks", "most_used_language",
     "average_stars", "forked_repos", "original_repos", "fork_ratio",
     "languages"}

\* lines 125-137: the values of the statistics row
statistics_row(username, stats, timestamp) ==
    [username |-> username,
     total_repos |-> stats.total_repos,
     total_stars |-> stats.total_stars,
     total_forks |-> stats.total_forks,
     most_used_language |-> stats.most_used_language,
     average_stars |-> stats.average_stars,
     forked_repos |-> stats.forked_repos,
     original_repos |-> stats.original_repos,
     fork_ratio |-> stats.fork_ratio,
     languages_json |-> json_dumps(stats.languages),
     analyzed_at |-> timestamp]

\* a slip: the statements that ran before the failure stay in the database
rollback_keeps_changes(committed, uncommitted) == uncommitted

\* conn.rollback(): the database is what it was at the last commit
rollback(committed, uncommitted) == committed

\* save_analysis(username, analysis_data) at time `timestamp`: the database
\* afterwards and the returned value, or the exception of get_connection,
\* which is called outside the try block.  A key of stats that is missing
\* raises KeyError when the values of the statistics row are put together,
\* after the profile row has been written.
save_analysis(db, username, analysis_data, timestamp, fault) ==
    LET profile == analysis_data.profile
        stats == analysis_data.statistics
        with_profile ==
            insert_or_replace_profile(db, profile_row(profile, timestamp))
        with_statistics ==
            insert_statistics(with_profile,
                              statistics_row(username, stats, timestamp))
    IN  IF fault = "connect"
        THEN [db |-> db,
              raised |-> <<[type |-> "OperationalError",
                            msg |-> <<"unable to open database file">>]>>]
        ELSE IF fault = "insert_profile"
        THEN [db |-> rollback(db, db), returned |-> FALSE, raised |-> <<>>]
        ELSE IF ~(StatisticsKeys \subseteq DOMAIN stats)
                \/ fault = "insert_statistics"
        THEN [db |-> rollback(db, with_profile), returned |-> FALSE,
              raised |-> <<>>]
        ELSE IF fault = "commit"
        THEN [db |-> rollback(db, with_statistics), returned |-> FALSE,
              raised |-> <<>>]
        ELSE [db |-> with_statistics, returned |-> TRUE, raised |-> <<>>]

\* get_profile(username): the row of that primary key as a dict, or None
\* (NoRow)
get_profile(db, username) ==
    LET rows == SelectSeq(db.profiles, LAMBDA r : r.username = username)
    IN  IF rows # <<>> THEN rows[1] ELSE NoRow

\* lines 200-204: the row as a dict, with languages parsed from
\* languages_json unless that text is empty
with_languages(row) ==
    IF row.languages_json # <<>>
    THEN [languages |-> json_loads(row.languages_json)] @@ row
    ELSE row

\* get_latest_statistics(username): ORDER BY analyzed_at DESC LIMIT 1.  SQL
\* leaves open which of several rows with the same analyzed_at comes first;
\* SQLite sorts stably and returns the one with the lowest rowid.
get_latest_statistics(db, username) ==
    LET rows == SelectSeq(db.statistics, LAMBDA r : r.username = username)
        latest == SetMax({rows[i].analyzed_at : i \in 1..Len(rows)})
        first == SetMin({i \in 1..Len(rows) : rows[i].analyzed_at = latest})
    IN  IF rows # <<>> THEN with_languages(rows[first]) ELSE NoRow

\* delete_profile(username): the database afterwards and the returned
\* value.  A DELETE that matches no row is not an error.
delete_profile(db, username, fault) ==
    LET without_statistics ==
            [db EXCEPT !.statistics =
                SelectSeq(@, LAMBDA r : r.username # username)]
        without_profile ==
            [without_statistics EXCEPT !.profiles =
                SelectSeq(@, LAMBDA r : r.username # username)]
    IN  IF fault = "delete_statistics"
        THEN [db |-> rollback(db, db), returned |-> FALSE]
        ELSE IF fault = "delete_profiles"
        THEN [db |-> rollback(db, without_statistics), returned |-> FALSE]
        ELSE IF fault = "commit"
        THEN [db |-> rollback(db, without_profile), returned |-> FALSE]
        ELSE [db |-> without_profile, returned |-> TRUE]

-----------------------------------------------------------------------------
(* main.py: the endpoints of the stored profiles                           *)

\* What a call of an endpoint function comes to: the database afterwards,
\* the returned body (status_code 200) or the HTTPException it raises, how
\* often it calls increment_analyses and increment_errors, and the call of
\* save_analysis or delete_profile that it made, for the record.

\* analyze_profile(username) at time t when the GitHub API answers gh; the
\* timing fields of the body are not modelled
analyze_profile(db, username, gh, t, fault) ==
    LET fetched == analyze_github_user(username, gh)
        saved == save_analysis(db, username, fetched.analysis, t, fault)
    IN  IF fetched.raised # <<>>
        THEN [db |-> db,
              response |->
                  HTTPException(IF gh.profile = "not_found" THEN 404 ELSE 500,
                                fetched.raised[1].msg),
              analyses |-> 0, errors |-> 1, db_call |-> NoResult]
        ELSE IF saved.raised # <<>>
        THEN [db |-> saved.db,
              response |->
                  HTTPException(500, <<"Internal server error: ">>
                                     \o saved.raised[1].msg),
              analyses |-> 0, errors |-> 1,
              db_call |-> [op |-> "save_analysis", username |-> username,
                           analysis_data |-> fetched.analysis,
                           timestamp |-> t, before |-> db]]
        ELSE [db |-> saved.db,
              response |-> [status_code |-> 200,
                            username |-> username,
                            saved_to_database |-> saved.returned,
                            data |-> fetched.analysis],
              analyses |-> 1, errors |-> 0,
              db_call |-> [op |-> "save_analysis", username |-> username,
                           analysis_data |-> fetched.analysis,
                           timestamp |-> t, before |-> db,
                           returned |-> saved.returned]]

\* get_stored_profile(username)
get_stored_profile(db, username) ==
    LET profile == get_profile(db, username)
    IN  IF profile = NoRow
        THEN [db |-> db,
              response |-> HTTPException(404, <<"Profile '", username,
                                                "' not found.">>),
              analyses |-> 0, errors |-> 0, db_call |-> NoResult]
        ELSE [db |-> db,
              response |-> [status_code |-> 200,
                            username |-> username,
                            profile |-> profile,
                            statistics |-> get_latest_statistics(db, username),
                            source |-> "database"],
              analyses |-> 0, errors |-> 0, db_call |-> NoResult]

\* delete_stored_profile(username)
delete_stored_profile(db, username, fault) ==
    LET deleted == delete_profile(db, username, fault)
        call == [op |-> "delete_profile", username |-> username,
                 before |-> db, returned |-> deleted.returned]
    IN  IF ~deleted.returned
        THEN [db |-> deleted.db,
              response |-> HTTPException(404, <<"Profile '", username,
                                                "' not found">>),
              analyses |-> 0, errors |-> 0, db_call |-> call]
        ELSE [db |-> deleted.db,
              response |-> [status_code |-> 200,
                            message |-> <<"Profile '", username,
                                          "' deleted successfully">>,
                            deleted |-> TRUE],
              analyses |-> 0, errors |-> 0, db_call |-> call]

\* lines 99-109 of rate_limiter.py: what a request comes to that
\* check_rate_limit turns away
rate_limit_exceeded(db, reset_seconds) ==
    [db |-> db,
     response |-> HTTPException(429, <<"Rate limit exceeded. Try again in ",
                                       reset_seconds, " seconds.">>),
     analyses |-> 0, errors |-> 0, db_call |-> NoResult]

\* lines 695-707: http_exception_handler counts an error for every
\* HTTPException that an endpoint or its dependency raises
handled_errors(answer) == IF "detail" \in DOMAIN answer THEN 1 ELSE 0

-----------------------------------------------------------------------------
(* The commit histories and users of the other state machines              *)

\* Short histories: every list of up to MaxShort commits, each by one of two
\* authors, made on Thursday 10:00, Thursday 09:00 or Friday 09:00, with an
\* unreadable or a readable line count.  alice changes 10 lines and bob 21;
\* the message goes by the date.
MaxShort == 3

ShortAuthors == {"alice", "bob"}
ShortDates == {T1, T1 - 1, T1 + 23}
ShortLines == [alice |-> {<<>>, <<10>>}, bob |-> {<<>>, <<21>>}]

ShortCommits ==
    UNION {{[author |-> a, committed_date |-> d, lines |-> l,
             message |-> IF d = T1 THEN <<"update">>
                         ELSE <<"Add", " ", "parser">>] :
               d \in ShortDates, l \in ShortLines[a]} : a \in ShortAuthors}

ShortHistories == UNION {[1..k -> ShortCommits] : k \in 1..MaxShort}

\* Histories of one commit: by either author, at any of the three dates,
\* with an unreadable, small, 1000-line or larger change and any of the
\* sample messages
SingleLines == {<<>>, <<10>>, <<1000>>, <<1001>>}
SingleMessages == Range(GenericSamples) \cup Range(PlainSamples)

SingleCommits ==
    {<<[author |-> a, committed_date |-> d, lines |-> l, message |-> m]>> :
        a \in ShortAuthors, d \in ShortDates, l \in SingleLines,
        m \in SingleMessages}

\* Three commits by one author within one day, every message "update": any
\* of three dates less than a day apart and any of three line counts for
\* each commit
ScenarioADates == {T1, T1 + 1, T1 + 23}
ScenarioALines == {<<>>, <<40>>, <<1001>>}

ScenarioAHistories ==
    {[i \in 1..3 |-> [author |-> a, committed_date |-> c[i][1],
                      lines |-> c[i][2], message |-> <<"update">>]] :
        a \in ShortAuthors,
        c \in [1..3 -> ScenarioADates \X ScenarioALines]}

\* Sixty commits over 120 days: the first ka by alice and the rest by bob;
\* the first k1 on day 0 at 10:00, those up to the k2-th on day 60 at 11:00
\* and the rest on day 120 at 10:00 + dh; six generic-looking messages, at
\* the start or at the end; line counts of 40, or 40 for the first commit
\* and 10 or none for the rest.
ScenarioBHistory(ka, k1, k2, dh, generic, mode) ==
    [i \in 1..60 |->
        [author |-> IF i <= ka THEN "alice" ELSE "bob",
         committed_date |-> IF i <= k1 THEN T1
                            ELSE IF i <= k2 THEN T1 + 60 * 24 + 1
                            ELSE T1 + 120 * 24 + dh,
         lines |-> CASE mode = "all" -> <<40>>
                     [] mode = "one" -> IF i = 1 THEN <<40>> ELSE <<10>>
                     [] mode = "rest_unknown" -> IF i = 1 THEN <<40>> ELSE <<>>,
         message |-> IF (generic = "first" /\ i <= 6)
                        \/ (generic = "last" /\ i > 54)
                     THEN GenericSamples[(i % 3) + 1]
                     ELSE PlainSamples[(i % 3) + 1]]]

ScenarioBParams ==
    {1, 3, 30, 57, 58, 59} \X {<<20, 40>>, <<30, 30>>, <<10, 40>>} \X {1, 2}
        \X {"first", "last"} \X {"all", "one", "rest_unknown"}

\* Twenty-five commits by one author within three days
ScenarioCParams ==
    {25} \X {0, 25} \X {25, 21, 20, 12} \X {1, 30, 3 * 24}
        \X {0, 7, 8, 12, 13, 25} \X SizeModes

\* what the GitHub API answers about a user: the profile request succeeds
\* or fails, and the list of repositories
GitHub(profile, repos) == [profile |-> profile, repos |-> repos]

\* longest list of repositories of a user
MaxRepos == 3

\* clone target and size field (<<>> when the API reports none) of a listed
\* repository
RepoKinds ==
    {<<Remote("ok", 1, FALSE, SmallHistory), <<>>>>,
     <<Remote("ok", 1, FALSE, SmallHistory), <<SkipSizeKb>>>>,
     <<Remote("ok", 1, FALSE, SmallHistory), <<SkipSizeKb + 1>>>>,
     <<Remote("ok", 1, FALSE, SharedHistory), <<2048>>>>,
     <<Remote("ok", 1, FALSE, <<>>), <<2048>>>>,
     <<Remote("git_error", 1, FALSE, <<>>), <<2048>>>>,
     <<Remote("ok", 1, TRUE, SmallHistory), <<2048>>>>}

\* the i-th repository of a listing
Repo(i, kind) ==
    IF kind[2] = <<>>
    THEN [name |-> <<"repo", i>>, clone_url |-> kind[1]]
    ELSE [name |-> <<"repo", i>>, clone_url |-> kind[1], size |-> kind[2][1]]

RepoLists ==
    UNION {{[i \in 1..k |-> Repo(i, ks[i])] : ks \in [1..k -> RepoKinds]} :
               k \in 0..MaxRepos}

\* values of the max_repos query parameter
MaxReposValues == 0..MaxRepos \cup {MAX_REPOS_PER_ANALYSIS + 1}

\* client addresses
Ips == {"10.0.0.1", "10.0.0.2"}

\* Requests to the endpoints of the stored profiles ---------------------------

\* most requests of one explored run, and the ticks of the clock that may
\* pass between them
MaxRequests == 2
MaxWait == 1

\* the names that requests carry
Usernames == {"octocat", "Octocat"}

\* GitHub finds a user whatever the case of the letters of the name and
\* answers with the login as it was registered
Logins == [octocat |-> "octocat", Octocat |-> "octocat"]

\* GET /users/{username}: the fields of the answer that the code reads
RawProfile(login) ==
    [login |-> login,
     name |-> "The Octocat",
     bio |-> None,
     location |-> "San Francisco",
     email |-> None,
     blog |-> "https://github.blog",
     company |-> "@github",
     public_repos |-> 8,
     public_gists |-> 8,
     followers |-> 100,
     following |-> 9,
     created_at |-> "2011-01-25T18:44:36Z",
     updated_at |-> "2024-01-01T00:00:00Z",
     html_url |-> <<"https://github.com/", login>>,
     avatar_url |-> None]

\* an item of GET /users/{username}/repos: the fields that
\* calculate_basic_stats reads
Listed(stargazers_count, forks_count, language, fork) ==
    [stargazers_count |-> stargazers_count, forks_count |-> forks_count,
     language |-> language, fork |-> fork]

\* the listings of repositories: none, one, and three of which one is a
\* fork and one has no language
Listings ==
    {<<>>,
     <<Listed(5, 1, "Python", FALSE)>>,
     <<Listed(3, 0, "JavaScript", TRUE), Listed(4, 2, "Python", FALSE),
       Listed(0, 0, None, FALSE)>>}

\* what the GitHub API answers about a user it knows
GitHubUser(login, listing, repos) ==
    [profile |-> "ok", raw_profile |-> RawProfile(login),
     listing |-> listing, repos |-> repos]

\* what the GitHub API may answer to the requests for username
Answers(username) ==
    {GitHub("not_found", <<>>), GitHub("api_error", <<>>),
     GitHubUser(Logins[username], "api_error", <<>>)}
    \cup {GitHubUser(Logins[username], "ok", repos) : repos \in Listings}

\* the statement of save_analysis that SQLite fails, if any
SaveFaults ==
    {"none", "connect", "insert_profile", "insert_statistics", "commit"}

\* the statement of delete_profile that SQLite fails, if any
DeleteFaults == {"none", "delete_statistics", "delete_profiles", "commit"}

\* the concurrent invocations of analyze_repository, and how many
\* directories they make together
Workers == 2
MaxDirs == 3
Invocations == 1..Workers
NotCalled == [pc |-> "idle"]

-----------------------------------------------------------------------------
(* The state machine: one request to analyze_repository                    *)

Init ==
    /\ pc = "idle"
    /\ remote = Remote("ok", 0, FALSE, <<>>)
    /\ result = NoResult
    /\ raised = <<>>
    /\ temp_dir_exists = FALSE
    /\ github = GitHub("ok", <<>>)
    /\ max_repos = 3
    /\ response = NoResult
    /\ analysis_count = 0
    /\ error_count = 0
    /\ now = 0
    /\ requests = [ip \in Ips |-> <<>>]
    /\ reply = NoResult
    /\ admitted = [ip \in Ips |-> <<>>]
    /\ database = EmptyDatabase
    /\ db_call = NoResult
    /\ request = NoResult
    /\ request_count = 0
    /\ disk = {}
    /\ calls = [i \in Invocations |-> NotCalled]
    /\ made = 0
    /\ removed = {}

Returns(rm) ==
    LET out == analyze_repository(rm)
    IN  /\ remote' = rm
        /\ result' = out.result
        /\ raised' = out.raised
        /\ temp_dir_exists' = out.temp_dir_exists
        /\ pc' = "done"
        /\ UNCHANGED <<batch_vars, rate_vars, api_vars, clone_vars>>

\* a request for a repository that clones and reads without trouble
AnalyzeRepository ==
    /\ pc = "idle"
    /\ \E p \in HistoryParams \cup {<<>>} :
        Returns(Remote("ok", 1, FALSE, HistoryOf(p)))

\* a request for a repository whose clone or commit walk fails
AnalyzeFailingRepository ==
    /\ pc = "idle"
    /\ \E rm \in FailingRemotes : Returns(rm)

Next == AnalyzeRepository \/ AnalyzeFailingRepository

Spec == Init /\ [][Next]_vars

-----------------------------------------------------------------------------
(* The state machine: one request to analyze_repository, short histories   *)

AnalyzeShortHistory ==
    /\ pc = "idle"
    /\ \E h \in ShortHistories : Returns(Remote("ok", 1, FALSE, h))

NextShort == AnalyzeShortHistory

SpecShort == Init /\ [][NextShort]_vars

-----------------------------------------------------------------------------
(* The state machine: one request to analyze_repository, a single commit   *)

AnalyzeSingleCommit ==
    /\ pc = "idle"
    /\ \E h \in SingleCommits : Returns(Remote("ok", 1, FALSE, h))

NextSingle == AnalyzeSingleCommit

SpecSingle == Init /\ [][NextSingle]_vars

-----------------------------------------------------------------------------
(* The state machine: one request to analyze_repository, the scenarios     *)

ScenarioA ==
    /\ pc = "idle"
    /\ \E h \in ScenarioAHistories : Returns(Remote("ok", 1, FALSE, h))

ScenarioB ==
    /\ pc = "idle"
    /\ \E p \in ScenarioBParams :
           Returns(Remote("ok", 1, FALSE,
                          ScenarioBHistory(p[1], p[2][1], p[2][2], p[3], p[4],
                                           p[5])))

ScenarioC ==
    /\ pc = "idle"
    /\ \E p \in ScenarioCParams : Returns(Remote("ok", 1, FALSE, HistoryOf(p)))

NextScenario == ScenarioA \/ ScenarioB \/ ScenarioC

SpecScenario == Init /\ [][NextScenario]_vars

-----------------------------------------------------------------------------
(* The state machine: the rate limiter and the clock                       *)

\* time passes: the clock of SpecRate moves on by one tick
Tick ==
    /\ now < MaxTime * tick
    /\ now' = now + tick
    /\ UNCHANGED <<git_vars, batch_vars, requests, reply, admitted, api_vars,
                 clone_vars>>

\* a request of client ip arrives and check_rate_limit calls is_allowed
IsAllowed ==
    \E ip \in Ips :
        LET out == is_allowed(requests, ip, now)
        IN  /\ requests' = out.requests
            /\ reply' = [ip |-> ip, at |-> now, allowed |-> out.allowed,
                         remaining |-> out.remaining,
                         reset_seconds |-> out.reset_seconds,
                         retry |-> FALSE]
            /\ admitted' = IF out.allowed
                           THEN [admitted EXCEPT ![ip] = Append(@, now)]
                           ELSE admitted
            /\ UNCHANGED <<git_vars, batch_vars, now, api_vars, clone_vars>>

NextRate == Tick \/ IsAllowed

SpecRate == Init /\ [][NextRate]_vars

-----------------------------------------------------------------------------
(* The state machine: the rate limiter and a client that honours           *)
(* Retry-After                                                             *)

\* time passes: the clock moves on by one instant
Moment ==
    /\ now < MaxMoments
    /\ now' = now + 1
    /\ UNCHANGED <<git_vars, batch_vars, requests, reply, admitted, api_vars,
                 clone_vars>>

\* the client that was denied last (429 with Retry-After: reset_seconds)
\* sends its next request reset_seconds seconds after the denied one, and
\* nobody else sends one in between
RetryAfter ==
    /\ reply # NoResult
    /\ ~reply.allowed
    /\ LET at == reply.at + reply.reset_seconds * second
           out == is_allowed(requests, reply.ip, at)
       IN  /\ now <= at
           /\ at <= MaxTime * tick
           /\ now' = at
           /\ requests' = out.requests
           /\ reply' = [ip |-> reply.ip, at |-> at, allowed |-> out.allowed,
                        remaining |-> out.remaining,
                        reset_seconds |-> out.reset_seconds,
                        retry |-> TRUE]
           /\ admitted' = IF out.allowed
                          THEN [admitted EXCEPT ![reply.ip] = Append(@, at)]
                          ELSE admitted
           /\ UNCHANGED <<git_vars, batch_vars, api_vars, clone_vars>>

NextRetry == Moment \/ IsAllowed \/ RetryAfter

SpecRetry == Init /\ [][NextRetry]_vars

-----------------------------------------------------------------------------
(* The state machine: one request to analyze_all_repositories              *)

Responds(gh, n) ==
    LET out == analyze_all_repositories(gh, n)
    IN  /\ github' = gh
        /\ max_repos' = n
        /\ response' = out.response
        /\ analysis_count' = analysis_count + out.analyses
        /\ error_count' = error_count + out.errors
        /\ pc' = "done"
        /\ UNCHANGED <<remote, result, raised, temp_dir_exists, rate_vars,
                     api_vars, clone_vars>>

\* a batch request for a user the GitHub API knows
AnalyzeAllRepositories ==
    /\ pc = "idle"
    /\ \E repos \in RepoLists, n \in MaxReposValues :
           Responds(GitHub("ok", repos), n)

\* a batch request that the GitHub API fails
AnalyzeAllOfUnknownUser ==
    /\ pc = "idle"
    /\ \E profile \in {"not_found", "api_error"}, n \in MaxReposValues :
           Responds(GitHub(profile, <<>>), n)

NextBatch == AnalyzeAllRepositories \/ AnalyzeAllOfUnknownUser

SpecBatch == Init /\ [][NextBatch]_vars

-----------------------------------------------------------------------------
(* The state machine: requests to the endpoints of the stored profiles     *)

\* One HTTP request of client ip, from the log_requests middleware to the
\* response: the middleware counts the request, check_rate_limit (for an
\* endpoint that depends on it, `limit` being <<what is_allowed returns>>)
\* admits it or raises 429, the endpoint function comes to `out`,
\* http_exception_handler counts an HTTPException, and the middleware asks
\* rate_limiter.get_info(ip), which cleans the list of ip.
Serves(method, path, username, ip, limit, served) ==
    /\ request' = [method |-> method, path |-> path, username |-> username]
    /\ response' = served.response
    /\ database' = served.db
    /\ db_call' = served.db_call
    /\ request_count' = request_count + 1
    /\ error_count' = error_count + served.errors
                      + handled_errors(served.response)
    /\ analysis_count' = analysis_count + served.analyses
    /\ requests' = clean_old_requests(
                       IF limit = <<>> THEN requests ELSE limit[1].requests,
                       ip, now)
    /\ reply' = IF limit = <<>>
                THEN reply
                ELSE [ip |-> ip, at |-> now, allowed |-> limit[1].allowed,
                      remaining |-> limit[1].remaining,
                      reset_seconds |-> limit[1].reset_seconds,
                      retry |-> FALSE]
    /\ admitted' = IF limit # <<>> /\ limit[1].allowed
                   THEN [admitted EXCEPT ![ip] = Append(@, now)]
                   ELSE admitted
    /\ UNCHANGED <<git_vars, github, max_repos, now, clone_vars>>

\* the outcome of an endpoint that depends on check_rate_limit
Limited(limit, out) ==
    IF limit.allowed THEN out ELSE rate_limit_exceeded(database, limit.reset_seconds)

\* GET /analyze/{username}
AnalyzeProfile ==
    /\ request_count < MaxRequests
    /\ \E ip \in Ips, username \in Usernames, fault \in SaveFaults :
         \E gh \in Answers(username) :
           Serves("GET", "/analyze", username, ip,
                  <<is_allowed(requests, ip, now)>>,
                  Limited(is_allowed(requests, ip, now),
                          analyze_profile(database, username, gh, now, fault)))

\* GET /profile/{username}
GetStoredProfile ==
    /\ request_count < MaxRequests
    /\ \E ip \in Ips, username \in Usernames :
           Serves("GET", "/profile", username, ip, <<>>,
                  get_stored_profile(database, username))

\* DELETE /profile/{username}
DeleteStoredProfile ==
    /\ request_count < MaxRequests
    /\ \E ip \in Ips, username \in Usernames, fault \in DeleteFaults :
           Serves("DELETE", "/profile", username, ip, <<>>,
                  delete_stored_profile(database, username, fault))

\* time passes between two requests
Waits ==
    /\ now < MaxWait * tick
    /\ now' = now + tick
    /\ UNCHANGED <<git_vars, batch_vars, requests, reply, admitted, api_vars,
                 clone_vars>>

NextApi == AnalyzeProfile \/ GetStoredProfile \/ DeleteStoredProfile \/ Waits

SpecApi == Init /\ [][NextApi]_vars

-----------------------------------------------------------------------------
(* The state machine: concurrent invocations of analyze_repository, step   *)
(* by step on the temporary directory                                      *)

\* tempfile.mkdtemp(prefix="github_audit_"): a new directory, named here by
\* its number; mkdtemp is taken never to give out the same name twice
mkdtemp(count) == count + 1

\* os.path.exists(path)
path_exists(dirs, path) == path \in dirs

\* a slip: everything with the prefix github_audit_ is removed
rmtree_of_prefix(dirs, path) == {}

\* shutil.rmtree(path), taken to succeed
rmtree(dirs, path) == dirs \ {path}

\* `if os.path.exists(temp_dir): shutil.rmtree(temp_dir)`
remove_if_exists(dirs, path) ==
    IF path_exists(dirs, path) THEN rmtree(dirs, path) ELSE dirs

\* the removals of one step of the invocation that made directory `by`
removals(by, before, after) == {[by |-> by, dir |-> d] : d \in before \ after}

CloneRemotes == FailingRemotes \cup {Remote("ok", 1, FALSE, SharedHistory)}

\* analyze_repository is called and clone_repository makes its directory
\* (line 37)
Mkdtemp(i) ==
    /\ calls[i].pc \in {"idle", "returned"}
    /\ made < MaxDirs
    /\ \E rm \in CloneRemotes :
        LET temp_dir == mkdtemp(made)
        IN  /\ made' = temp_dir
            /\ disk' = disk \cup {temp_dir}
            /\ calls' = [calls EXCEPT ![i] =
                            [pc |-> "cloning", remote |-> rm,
                             temp_dir |-> temp_dir]]
    /\ UNCHANGED <<git_vars, batch_vars, rate_vars, api_vars, removed>>

\* Repo.clone_from (lines 44-49) returns or raises
CloneFrom(i) ==
    /\ calls[i].pc = "cloning"
    /\ calls' = [calls EXCEPT ![i].pc =
                    IF calls[i].remote.clone = "ok" THEN "sizing" ELSE "except"]
    /\ UNCHANGED <<git_vars, batch_vars, rate_vars, api_vars, disk, made,
                   removed>>

\* the size check (lines 52-59): an oversized clone is removed and the
\* GitAnalysisError raised inside the try block
GetDirSize(i) ==
    /\ calls[i].pc = "sizing"
    /\ IF calls[i].remote.size_mb > max_size_mb
       THEN /\ disk' = rmtree(disk, calls[i].temp_dir)
            /\ calls' = [calls EXCEPT ![i].pc = "except"]
       ELSE /\ disk' = disk
            /\ calls' = [calls EXCEPT ![i].pc = "cloned"]
    /\ removed' = removed \cup removals(calls[i].temp_dir, disk, disk')
    /\ UNCHANGED <<git_vars, batch_vars, rate_vars, api_vars, made>>

\* an except clause of clone_repository (lines 61-69), then the except
\* clause of analyze_repository returns the error dictionary; its finally
\* block finds temp_dir None
ExceptClause(i) ==
    /\ calls[i].pc = "except"
    /\ disk' = remove_if_exists(disk, calls[i].temp_dir)
    /\ removed' = removed \cup removals(calls[i].temp_dir, disk, disk')
    /\ calls' = [calls EXCEPT ![i] =
                    [pc |-> "returned", remote |-> @.remote,
                     temp_dir |-> @.temp_dir,
                     result |-> analyze_repository(@.remote).result]]
    /\ UNCHANGED <<git_vars, batch_vars, rate_vars, api_vars, made>>

\* the analysis of the cloned repository (lines 342-357) and the finally
\* block (lines 366-372), temp_dir being repo.working_dir
FinallyClause(i) ==
    /\ calls[i].pc = "cloned"
    /\ disk' = remove_if_exists(disk, calls[i].temp_dir)
    /\ removed' = removed \cup removals(calls[i].temp_dir, disk, disk')
    /\ calls' = [calls EXCEPT ![i] =
                    [pc |-> "returned", remote |-> @.remote,
                     temp_dir |-> @.temp_dir,
                     result |-> analyze_repository(@.remote).result]]
    /\ UNCHANGED <<git_vars, batch_vars, rate_vars, api_vars, made>>

NextClone ==
    \E i \in Invocations :
        \/ Mkdtemp(i)
        \/ CloneFrom(i)
        \/ GetDirSize(i)
        \/ ExceptClause(i)
        \/ FinallyClause(i)

SpecClone == Init /\ [][NextClone]_vars

-----------------------------------------------------------------------------
(* What the claims speak about                                             *)

Done == pc = "done"

\* the request got as far as a cloned repository
Cloned == Done /\ remote.clone = "ok" /\ remote.size_mb <= max_size_mb

\* the request returned a dictionary with a score
Scored == Done /\ "authenticity_score" \in DOMAIN result

\* ... computed from statistics, not from an error dictionary
Analyzed == Scored /\ "error" \notin DOMAIN result.commit_analysis

FlagTypes == [i \in 1..Len(result.red_flags) |-> result.red_flags[i].type]

HasFlag(type) == \E i \in 1..Len(result.red_flags) : result.red_flags[i].type = type

\* [condition] of the claims: 1 if it holds, else 0
Iverson(b) == IF b THEN 1 ELSE 0

-----------------------------------------------------------------------------
\* C1: for every non-empty commit sequence the request returns an
\* authenticity_score and it is an integer between 0 and 100

C1_ScoreInRange ==
    (Cloned /\ remote.commits # <<>>) =>
        /\ "authenticity_score" \in DOMAIN result
        /\ result.authenticity_score \in 0..100

\* a history whose penalties outweigh the base score and its bonuses
C1_Witness ==
    /\ Analyzed
    /\ remote.commits # <<>>
    /\ Len(result.red_flags) >= 4
    /\ result.authenticity_score = 0

-----------------------------------------------------------------------------
\* C2: for a repository with zero commits the request neither raises nor
\* returns a top-level error; the score is 0, red_flags is empty and the
\* statistics report total_commits = 0

-----------------------------------------------------------------------------
\* C3: the types of the returned flags always appear in the order
\* low_activity, no_collaboration, suspicious_timing, bulk_upload,
\* burst_activity, generic_messages, dominated_repo

FlagOrder ==
    <<"low_activity", "no_collaboration", "suspicious_timing", "bulk_upload",
      "burst_activity", "generic_messages", "dominated_repo">>

Rank(type) == CHOOSE r \in 1..Len(FlagOrder) : FlagOrder[r] = type

C3_FlagOrder ==
    Scored =>
        /\ \A i \in 1..Len(FlagTypes) : FlagTypes[i] \in Range(FlagOrder)
        /\ \A i, j \in 1..Len(FlagTypes) :
               i < j => Rank(FlagTypes[i]) < Rank(FlagTypes[j])

\* rules from the start, the middle and the end of the list fire together
C3_Witness ==
    /\ Analyzed
    /\ HasFlag("no_collaboration")
    /\ HasFlag("suspicious_timing")
    /\ HasFlag("bulk_upload")
    /\ HasFlag("generic_messages")

-----------------------------------------------------------------------------
\* C4: on error-free statistics every one of the seven rules is evaluated:
\* a flag of a type is present exactly when the rule's condition holds on
\* the statistics, at most once, with the severity and score_impact of the
\* rule table

RuleTable(ca) ==
    << [type |-> "low_activity", fires |-> ca.total_commits < 5,
        severity |-> "medium", score_impact |-> -15],
       [type |-> "no_collaboration",
        fires |-> ca.unique_authors = 1 /\ ca.total_commits > 5,
        severity |-> "low", score_impact |-> -5],
       [type |-> "suspicious_timing", fires |-> ca.hour_concentration > 80,
        severity |-> "high", score_impact |-> -25],
       [type |-> "bulk_upload", fires |-> ca.max_commit_size > 1000,
        severity |-> "high", score_impact |-> -20],
       [type |-> "burst_activity",
        fires |-> ca.total_commits > 20 /\ ca.days_active < 7,
        severity |-> "high", score_impact |-> -25],
       [type |-> "generic_messages", fires |-> ca.generic_message_ratio > 50,
        severity |-> "medium", score_impact |-> -10],
       [type |-> "dominated_repo",
        fires |-> ca.unique_authors > 1
                  /\ 100 * ca.top_author_commits > 95 * ca.total_commits,
        severity |-> "low", score_impact |-> -5] >>

C4_RulesIndependent ==
    Analyzed =>
        LET table == RuleTable(result.commit_analysis)
            flags == result.red_flags
        IN  /\ \A r \in 1..Len(table) :
                Cardinality({i \in 1..Len(flags) : flags[i].type = table[r].type})
                    = Iverson(table[r].fires)
            /\ \A i \in 1..Len(flags) :
                \E r \in 1..Len(table) :
                    /\ flags[i].type = table[r].type
                    /\ flags[i].severity = table[r].severity
                    /\ flags[i].score_impact = table[r].score_impact
                    /\ flags[i].score_impact <= 0

\* several rules fire on the same statistics, the last one after three others
C4_Witness ==
    /\ Analyzed
    /\ Len(result.red_flags) >= 4
    /\ HasFlag("low_activity")
    /\ HasFlag("generic_messages")

-----------------------------------------------------------------------------
\* C5: on error-free statistics the score is 50, plus each bonus whose
\* condition holds (they stack), plus the score_impact of every flag,
\* clamped to 0..100 once at the end

RECURSIVE SumImpacts(_)
SumImpacts(flags) ==
    IF flags = <<>> THEN 0
    ELSE flags[Len(flags)].score_impact
         + SumImpacts(SubSeq(flags, 1, Len(flags) - 1))

Bonuses(ca) ==
    10 * Iverson(ca.total_commits >= 10)
    + 10 * Iverson(ca.total_commits >= 50)
    + 10 * Iverson(ca.unique_authors > 1)
    + 10 * Iverson(ca.days_active > 30)
    + 5 * Iverson(ca.days_active > 90)
    + 5 * Iverson(ca.generic_message_ratio < 30)

Clamp0To100(x) == IF x < 0 THEN 0 ELSE IF x > 100 THEN 100 ELSE x

C5_ScoreFormula ==
    Analyzed =>
        result.authenticity_score =
            Clamp0To100(50 + Bonuses(result.commit_analysis)
                        + SumImpacts(result.red_flags))

\* both bonuses of a pair are earned and a penalty applies as well
C5_Witness ==
    /\ Analyzed
    /\ result.commit_analysis.total_commits >= 50
    /\ result.commit_analysis.days_active > 90
    /\ result.red_flags # <<>>
    /\ result.authenticity_score \in 1..99

-----------------------------------------------------------------------------
(* The fractions of the commit list itself, before any rounding            *)

\* commits in the busiest hour of day
MaxHourCount ==
    SetMax({Cardinality({i \in 1..Len(remote.commits) :
                            hour_of(remote.commits[i].committed_date) = h}) :
            h \in 0..23})

\* commits whose first message line is, ignoring case, a generic phrase
GenericCount ==
    Cardinality({i \in 1..Len(remote.commits) :
        lower(first_line(strip(remote.commits[i].message)))
            \in GenericMessages})

-----------------------------------------------------------------------------
\* C6: suspicious_timing is raised exactly when the busiest hour holds
\* strictly more than 0.8 of the commits, whatever the rounding of
\* hour_concentration

C6_TimingOnExactFraction ==
    Analyzed =>
        (HasFlag("suspicious_timing")
            <=> 5 * MaxHourCount > 4 * Len(remote.commits))

-----------------------------------------------------------------------------
\* C7: generic_messages is raised exactly when strictly more than half of
\* the commits have a generic first message line, whatever the rounding of
\* generic_message_ratio

C7_GenericOnExactFraction ==
    Analyzed =>
        (HasFlag("generic_messages")
            <=> 2 * GenericCount > Len(remote.commits))

-----------------------------------------------------------------------------
\* C8: the +5 message-quality bonus is part of the score exactly when
\* strictly less than 0.3 of the commits have a generic first message line,
\* whatever the rounding of generic_message_ratio

BonusesOnExactFraction(ca) ==
    10 * Iverson(ca.total_commits >= 10)
    + 10 * Iverson(ca.total_commits >= 50)
    + 10 * Iverson(ca.unique_authors > 1)
    + 10 * Iverson(ca.days_active > 30)
    + 5 * Iverson(ca.days_active > 90)
    + 5 * Iverson(10 * GenericCount < 3 * Len(remote.commits))

C8_BonusOnExactFraction ==
    Analyzed =>
        result.authenticity_score =
            Clamp0To100(50 + BonusesOnExactFraction(result.commit_analysis)
                        + SumImpacts(result.red_flags))

-----------------------------------------------------------------------------
\* C9: when the commit walk fails for another reason than an empty history,
\* the request ends without an authenticity_score and without red_flags

C9_FailureNotScored ==
    (Cloned /\ remote.fault) =>
        /\ "authenticity_score" \notin DOMAIN result
        /\ "red_flags" \notin DOMAIN result

-----------------------------------------------------------------------------
\* C10 as claimed: when the repository cannot be cloned or is over the size
\* limit, the GitAnalysisError of clone_repository reaches the caller of
\* analyze_repository unchanged, and no statistics, flags or score exist

-----------------------------------------------------------------------------
(* The batch endpoint                                                      *)

\* the batch request got past the max_repos check and the GitHub API
\* answered it
BatchRan ==
    /\ pc = "done"
    /\ response # NoResult
    /\ max_repos <= MAX_REPOS_PER_ANALYSIS
    /\ github.profile = "ok"

\* the repositories the loop visits
Visited == slice_to(github.repos, max_repos)

\* what an entry of repository_analyses says about its repository
EntryKinds(entry) == DOMAIN entry \cap {"skipped", "analysis", "error"}

\* C11: in the batch endpoint a failure while analysing one repository (an
\* error result or a raised exception) never prevents the others: the
\* response is a 200 whose repository_analyses holds exactly one entry for
\* every repository of repos[:max_repos], in input order, each entry being
\* the one its repository produces on its own
C11_OneEntryPerRepo ==
    BatchRan =>
        /\ response.status_code = 200
        /\ Len(response.repository_analyses) = Len(Visited)
        /\ response.repositories_analyzed = Len(Visited)
        /\ \A i \in 1..Len(Visited) :
              LET entry == response.repository_analyses[i]
              IN  /\ entry.repo_name = Visited[i].name
                  /\ Cardinality(EntryKinds(entry)) = 1
                  /\ entry = for_each_repo(<<Visited[i]>>, <<>>).repo_analyses[1]

\* a batch whose first repository failed to clone, whose second made the
\* loop body raise, and which still has an entry for a third
C11_Witness ==
    /\ BatchRan
    /\ Len(Visited) = 3
    /\ Visited[1].clone_url.clone = "git_error"
    /\ Visited[2].clone_url.clone = "ok"
    /\ save_repository_analysis.raised # <<>>
    /\ "error" \in DOMAIN response.repository_analyses[1]
    /\ "error" \in DOMAIN response.repository_analyses[2]
    /\ response.repository_analyses[2].error =
           save_repository_analysis.raised[1].msg
    /\ response.repository_analyses[3].repo_name = <<"repo", 3>>

-----------------------------------------------------------------------------
(* Statistics of the time span                                             *)

CommitDates == {remote.commits[i].committed_date : i \in 1..Len(remote.commits)}

\* whole days between the earliest and the latest commit
WholeDays == (SetMax(CommitDates) - SetMin(CommitDates)) \div 24

\* x, a number of hundredths, is n/d rounded to 2 decimals: no hundredth is
\* closer to n/d
NearestHundredth(x, n, d) ==
    /\ 2 * (100 * n - x * d) <= d
    /\ 2 * (x * d - 100 * n) <= d

\* C13: days_active is the number of whole days between the earliest and the
\* latest commit, raised to 1 when it is 0, so it is at least 1;
\* commits_per_day is total_commits / days_active rounded to 2 decimals; a
\* history of a single commit has days_active 1, commits_per_day equal to
\* total_commits and hour_concentration 1.0
C13_DaysActive ==
    Analyzed =>
        LET ca == result.commit_analysis
        IN  /\ ca.days_active = Max2(1, WholeDays)
            /\ ca.days_active >= 1
            /\ NearestHundredth(ca.commits_per_day, ca.total_commits,
                                ca.days_active)
            /\ ca.total_commits = 1 =>
                  /\ ca.days_active = 1
                  /\ ca.commits_per_day = 100 * ca.total_commits
                  /\ ca.hour_concentration = 100

\* 41 commits of which the last were made 7 days and 1 hour after the first:
\* 7 whole days, 5.86 commits per day
C13_Witness ==
    /\ Analyzed
    /\ result.commit_analysis.total_commits = 41
    /\ WholeDays = 7
    /\ SetMax(CommitDates) - SetMin(CommitDates) > 7 * 24
    /\ result.commit_analysis.days_active = 7
    /\ result.commit_analysis.commits_per_day = 586

-----------------------------------------------------------------------------
(* Most frequent author, hour and day                                      *)

\* the keys of one of the three dicts, how many commits each key counts and
\* where in the commit sequence it is first met
KeysOf(dict) == {key_of(remote.commits[i], dict) : i \in 1..Len(remote.commits)}

CountOf(dict, k) ==
    Cardinality({i \in 1..Len(remote.commits) :
                    key_of(remote.commits[i], dict) = k})

FirstAt(dict, k) ==
    SetMin({i \in 1..Len(remote.commits) : key_of(remote.commits[i], dict) = k})

\* k has the largest count, and of the keys with that count it is met first
FirstMaximal(dict, k) ==
    /\ k \in KeysOf(dict)
    /\ \A k2 \in KeysOf(dict) :
          /\ CountOf(dict, k2) <= CountOf(dict, k)
          /\ CountOf(dict, k2) = CountOf(dict, k) =>
                FirstAt(dict, k) <= FirstAt(dict, k2)

\* C14: top_author_commits is the largest per-author commit count and
\* top_author is an author with that count; when several authors tie,
\* top_author is the one met first in the commit sequence; most_active_hour
\* and most_active_day are likewise the first-met maximal hour and day
C14_FirstMaximal ==
    Analyzed =>
        LET ca == result.commit_analysis
        IN  /\ CountOf("authors", ca.top_author) = ca.top_author_commits
            /\ FirstMaximal("authors", ca.top_author)
            /\ FirstMaximal("commit_hours", ca.most_active_hour)
            /\ FirstMaximal("commit_days", ca.most_active_day)

\* bob then alice, one commit each, on Friday 09:00 and Thursday 10:00: each
\* of the three ties goes to the first commit
C14_Witness ==
    /\ Analyzed
    /\ Len(remote.commits) = 2
    /\ remote.commits[1].author = "bob"
    /\ remote.commits[2].author = "alice"
    /\ remote.commits[1].committed_date = T1 + 23
    /\ remote.commits[2].committed_date = T1
    /\ result.commit_analysis.top_author = "bob"
    /\ result.commit_analysis.top_author_commits = 1
    /\ result.commit_analysis.most_active_hour = hour_of(T1 + 23)
    /\ result.commit_analysis.most_active_day = weekday_of(T1 + 23)

-----------------------------------------------------------------------------
(* Commits whose size cannot be read                                       *)

\* the commits whose line count could be read, in order
KnownSize == SelectSeq(remote.commits, LAMBDA c : c.lines # <<>>)

KnownLines == {KnownSize[i].lines[1] : i \in 1..Len(KnownSize)}

\* x, a number of tenths, is n/d rounded to 1 decimal
NearestTenth(x, n, d) ==
    /\ 2 * (10 * n - x * d) <= d
    /\ 2 * (x * d - 10 * n) <= d

UpdateMessages ==
    {i \in 1..Len(remote.commits) : remote.commits[i].message = <<"update">>}

\* C15: a commit whose line count cannot be read does not abort the
\* analysis; it is counted in total_commits, in the author, hour and day
\* distributions and among the messages, but avg_commit_size,
\* median_commit_size and max_commit_size are those of the commits with a
\* known size alone; when no commit has a known size the three are 0 and
\* bulk_upload is not raised
C15_UnknownSizesLeftOut ==
    (Cloned /\ ~remote.fault /\ remote.commits # <<>>) =>
        /\ Analyzed
        /\ LET ca == result.commit_analysis
           IN  /\ ca.total_commits = Len(remote.commits)
               /\ \A dict \in {"authors", "commit_hours", "commit_days"} :
                     LET d == CASE dict = "authors" -> ca.authors
                                [] dict = "commit_hours" ->
                                       ca.commit_hours_distribution
                                [] dict = "commit_days" ->
                                       ca.commit_days_distribution
                     IN  /\ DOMAIN d = KeysOf(dict)
                         /\ \A k \in DOMAIN d : d[k] = CountOf(dict, k)
               /\ NearestHundredth(ca.generic_message_ratio,
                                   Cardinality(UpdateMessages),
                                   Len(remote.commits))
               /\ IF KnownSize = <<>>
                  THEN /\ ca.avg_commit_size = 0
                       /\ ca.median_commit_size = 0
                       /\ ca.max_commit_size = 0
                       /\ ~HasFlag("bulk_upload")
                  ELSE LET known == commit_statistics(KnownSize)
                       IN  /\ ca.avg_commit_size = known.avg_commit_size
                           /\ ca.median_commit_size = known.median_commit_size
                           /\ ca.max_commit_size = known.max_commit_size
                           /\ ca.max_commit_size = SetMax(KnownLines)
                           /\ NearestTenth(ca.avg_commit_size,
                                           sum([i \in 1..Len(KnownSize) |->
                                                  KnownSize[i].lines[1]]),
                                           Len(KnownSize))

\* three commits of unknown size, 10 lines and 21 lines: all three counted,
\* mean and median 15.5, largest 21
C15_Witness ==
    /\ Analyzed
    /\ Len(remote.commits) = 3
    /\ remote.commits[1].lines = <<>>
    /\ remote.commits[2].lines = <<10>>
    /\ remote.commits[3].lines = <<21>>
    /\ remote.commits[1].author = "alice"
    /\ remote.commits[2].author = "alice"
    /\ remote.commits[3].author = "bob"
    /\ result.commit_analysis.total_commits = 3
    /\ result.commit_analysis.authors["alice"] = 2
    /\ result.commit_analysis.avg_commit_size = 155
    /\ result.commit_analysis.median_commit_size = 155
    /\ result.commit_analysis.max_commit_size = 21

-----------------------------------------------------------------------------
(* The scenarios                                                           *)

Authors == {remote.commits[i].author : i \in 1..Len(remote.commits)}

\* hours between the earliest and the latest commit
SpanHours == SetMax(CommitDates) - SetMin(CommitDates)

Score == result.authenticity_score

\* 3 commits by 1 author, all within one day, all with the message "update"
IsScenarioA ==
    /\ Cloned /\ ~remote.fault
    /\ Len(remote.commits) = 3
    /\ Cardinality(Authors) = 1
    /\ SpanHours < 24
    /\ \A i \in 1..3 : remote.commits[i].message = <<"update">>

\* C16, as stated: every history of 3 commits by 1 author, all within one
\* day and all with the message "update", has the red flags low_activity and
\* generic_messages and the score 50 - 15 - 10 = 25
C16_ScenarioA ==
    IsScenarioA =>
        /\ Analyzed
        /\ FlagTypes = <<"low_activity", "generic_messages">>
        /\ Score = 25

\* C16, amended: ... provided the three commits were not all made in the
\* same hour of day and none of them changed more than 1000 lines
C16_ScenarioAOverHours ==
    (/\ IsScenarioA
     /\ Cardinality(KeysOf("commit_hours")) > 1
     /\ \A i \in 1..3 : remote.commits[i].lines # <<>> =>
                            remote.commits[i].lines[1] <= 1000) =>
        /\ Analyzed
        /\ FlagTypes = <<"low_activity", "generic_messages">>
        /\ Score = 25

\* two commits at 10:00 and one at 11:00, of 40 lines each
C16_Witness ==
    /\ IsScenarioA
    /\ Cardinality(KeysOf("commit_hours")) = 2
    /\ \A i \in 1..3 : remote.commits[i].lines = <<40>>
    /\ Analyzed
    /\ FlagTypes = <<"low_activity", "generic_messages">>
    /\ Score = 25

\* 60 commits by 2 authors spread over 120 days, generic_message_ratio 0.1,
\* no hour of day holding more than half of the commits, largest commit 40
\* lines
IsScenarioB ==
    /\ Cloned /\ ~remote.fault
    /\ Len(remote.commits) = 60
    /\ Cardinality(Authors) = 2
    /\ SpanHours \div 24 = 120
    /\ Analyzed
    /\ result.commit_analysis.generic_message_ratio = 10
    /\ \A h \in KeysOf("commit_hours") : 2 * CountOf("commit_hours", h) <= 60
    /\ KnownLines # {}
    /\ SetMax(KnownLines) = 40

\* C17, as stated: every such history has no red flag and the score 100
C17_ScenarioB ==
    IsScenarioB =>
        /\ result.red_flags = <<>>
        /\ Score = 100

\* C17, amended: ... provided neither author made more than 57 of the 60
\* commits
C17_ScenarioBSharedWork ==
    (IsScenarioB /\ \A a \in Authors : CountOf("authors", a) <= 57) =>
        /\ result.red_flags = <<>>
        /\ Score = 100

\* alice made 57 of the 60 commits, exactly 0.95 of them
C17_Witness ==
    /\ IsScenarioB
    /\ CountOf("authors", "alice") = 57
    /\ CountOf("authors", "bob") = 3
    /\ result.commit_analysis.top_author_commits = 57
    /\ result.red_flags = <<>>
    /\ Score = 100

\* 25 commits by a single author, all committed within 3 days
IsScenarioC ==
    /\ Cloned /\ ~remote.fault
    /\ Len(remote.commits) = 25
    /\ Cardinality(Authors) = 1
    /\ SpanHours <= 3 * 24

\* the flags of the result other than the two of the scenario
OtherFlags ==
    SelectSeq(result.red_flags,
              LAMBDA f : f.type \notin {"no_collaboration", "burst_activity"})

\* 5 when fewer than 0.3 of the 25 messages are generic, else 0
MessageBonus == IF 10 * GenericCount < 3 * 25 THEN 5 ELSE 0

\* C18: every history of 25 commits by a single author, all committed within
\* 3 days, has the red flags no_collaboration and burst_activity, in that
\* order, and its score carries both penalties together: it is
\* max(0, 50 + 10 + message bonus - 5 - 25 - penalties of the other flags)
C18_ScenarioC ==
    IsScenarioC =>
        /\ Analyzed
        /\ \E i, j \in 1..Len(result.red_flags) :
              /\ i < j
              /\ FlagTypes[i] = "no_collaboration"
              /\ result.red_flags[i].score_impact = -5
              /\ FlagTypes[j] = "burst_activity"
              /\ result.red_flags[j].score_impact = -25
        /\ Score = Max2(0, 50 + 10 + MessageBonus - 5 - 25
                              + SumImpacts(OtherFlags))

\* 25 commits of 40 lines over 30 hours, 7 of them generic and at most 20 in
\* one hour: only the two flags, and the score 50 + 10 + 5 - 5 - 25
C18_Witness ==
    /\ IsScenarioC
    /\ SpanHours = 30
    /\ result.commit_analysis.days_active = 1
    /\ FlagTypes = <<"no_collaboration", "burst_activity">>
    /\ MessageBonus = 5
    /\ Score = 35

-----------------------------------------------------------------------------
(* Spreading commits over the hours of the day                             *)

\* the history with its i-th commit made at another time
Reassigned(i, date) ==
    [remote.commits EXCEPT ![i].committed_date = date]

\* dates at an hour of day in which no commit of the history was made
FreshDates ==
    {d \in {T1 + 2, T1 + 3, T1 + 26} : hour_of(d) \notin KeysOf("commit_hours")}

\* C19: with the number of commits fixed, moving one commit to an hour of
\* day in which no commit was made before never increases
\* hour_concentration
C19_SpreadingNeverConcentrates ==
    Analyzed =>
        \A i \in 1..Len(remote.commits) : \A d \in FreshDates :
            commit_statistics(Reassigned(i, d)).hour_concentration
                <= result.commit_analysis.hour_concentration

\* three commits in the same hour, one of which is moved to 12:00:
\* hour_concentration falls from 1.0 to 0.67
C19_Witness ==
    /\ Analyzed
    /\ Len(remote.commits) = 3
    /\ Cardinality(KeysOf("commit_hours")) = 1
    /\ T1 + 2 \in FreshDates
    /\ result.commit_analysis.hour_concentration = 100
    /\ commit_statistics(Reassigned(1, T1 + 2)).hour_concentration = 67

-----------------------------------------------------------------------------
(* The rate limiter                                                        *)

\* how many requests of ip were admitted after time lo and up to time hi
AdmittedIn(ip, lo, hi) ==
    Cardinality({i \in 1..Len(admitted[ip]) :
                    lo < admitted[ip][i] /\ admitted[ip][i] <= hi})

Called == reply # NoResult

\* the instants that the clock of SpecRate shows
Instants == {k * tick : k \in 0..MaxTime}

\* how many requests of the caller had been admitted within the window that
\* ends at the last call, that call left out
AdmittedBefore ==
    AdmittedIn(reply.ip, reply.at - window, reply.at) - Iverson(reply.allowed)

\* C20: is_allowed(ip) admits a request exactly when fewer than max_requests
\* requests of the same ip were admitted within the preceding window_hours,
\* so no ip has more than max_requests admitted requests in any interval
\* (t - window, t]; an admitted request is told how many more the window
\* has room for (max_requests - 1 down to 0 for the first max_requests
\* requests of a fresh ip) and a denied one is told 0
C20_SlidingWindow ==
    /\ \A ip \in Ips : \A t \in Instants :
          AdmittedIn(ip, t - window, t) <= max_requests
    /\ Called =>
          /\ reply.allowed <=> AdmittedBefore < max_requests
          /\ reply.remaining =
                 IF reply.allowed THEN max_requests - AdmittedBefore - 1 ELSE 0
          /\ (reply.allowed /\ AdmittedBefore + 1 = Len(admitted[reply.ip])) =>
                 reply.remaining = max_requests - Len(admitted[reply.ip])

\* a fresh ip made max_requests requests, all admitted, and its next one,
\* later but inside the window, is denied with remaining 0
C20_Witness ==
    /\ Called
    /\ ~reply.allowed
    /\ reply.remaining = 0
    /\ Len(admitted[reply.ip]) = max_requests
    /\ admitted[reply.ip][1] < reply.at
    /\ reply.at < admitted[reply.ip][1] + window
    /\ reply.reset_seconds > 0

-----------------------------------------------------------------------------
(* The rate limiter and Retry-After                                        *)

\* the last call was the retry of a denied client, made exactly
\* reset_seconds seconds after the denial
Retried == Called /\ reply.retry

\* every recorded request of ip is an admitted one
OnlyAdmittedRecorded(ip) ==
    \A i \in 1..Len(requests[ip]) :
        \E j \in 1..Len(admitted[ip]) : admitted[ip][j] = requests[ip][i]

\* C23: a client that was denied with reset_seconds = r and sends its next
\* request r seconds later, no other request of its ip in between, is
\* admitted; an ip is denied only while its oldest recorded request is less
\* than window_hours old; denied requests are not recorded
C23_RetryAfterAdmits ==
    /\ Retried => reply.allowed
    /\ (Called /\ ~reply.allowed) =>
           SetMin(Range(requests[reply.ip])) + window > reply.at
    /\ \A ip \in Ips : OnlyAdmittedRecorded(ip)

\* the two parts of C23 that do not speak of reset_seconds
C23_BlockEndsWithWindow ==
    /\ (Called /\ ~reply.allowed) =>
           SetMin(Range(requests[reply.ip])) + window > reply.at
    /\ \A ip \in Ips : OnlyAdmittedRecorded(ip)

\* a retry after a denial that came a whole number of seconds after the
\* oldest recorded request: it is admitted
C23_RetryAdmitted == Retried /\ reply.allowed

\* a retry that is denied again, and told to retry in 0 seconds
C23_RetryDenied == Retried /\ ~reply.allowed /\ reply.reset_seconds = 0

-----------------------------------------------------------------------------
(* The stored profiles                                                     *)

\* the last request called save_analysis
Saved == db_call # NoResult /\ db_call.op = "save_analysis"

\* ... and save_analysis returned True
SavedTrue == Saved /\ "returned" \in DOMAIN db_call /\ db_call.returned

\* the last request called delete_profile
Deleted == db_call # NoResult /\ db_call.op = "delete_profile"

\* row holds the values of the profile that was handed to save_analysis
IsProfile(row, profile) ==
    /\ row # NoRow
    /\ \A k \in DOMAIN row \ {"analyzed_at"} : row[k] = profile[k]

\* row holds the values of the statistics that were handed to save_analysis
IsStatistics(row, stats) ==
    /\ row # NoRow
    /\ \A k \in StatisticsKeys : k \in DOMAIN stats /\ row[k] = stats[k]

\* C21: after save_analysis(username, analysis) returned True,
\* get_profile(username) returns the profile that was stored, not None, and
\* get_latest_statistics(username) returns the statistics just saved,
\* whatever the username the analysis was requested with
C21_RoundTrip ==
    SavedTrue =>
        /\ IsProfile(get_profile(database, db_call.username),
                     db_call.analysis_data.profile)
        /\ IsStatistics(get_latest_statistics(database, db_call.username),
                        db_call.analysis_data.statistics)

\* the round trip of a save under the login itself, later than every
\* earlier save of that name
C21_RoundTripOfLogin ==
    (/\ SavedTrue
     /\ db_call.username = db_call.analysis_data.profile.username
     /\ \A i \in 1..Len(db_call.before.statistics) :
            db_call.before.statistics[i].analyzed_at < db_call.timestamp) =>
        /\ IsProfile(get_profile(database, db_call.username),
                     db_call.analysis_data.profile)
        /\ IsStatistics(get_latest_statistics(database, db_call.username),
                        db_call.analysis_data.statistics)

\* C22: DELETE /profile/{username} answers 404 when no profile of that
\* username is stored and answers deleted = True only when a stored profile
\* was removed: delete_profile returns False for a username without a
\* stored profile
C22_DeleteOnlyStored ==
    Deleted =>
        /\ get_profile(db_call.before, db_call.username) = NoRow =>
               /\ ~db_call.returned
               /\ response.status_code = 404
        /\ response.status_code = 200 =>
               /\ response.deleted
               /\ get_profile(db_call.before, db_call.username) # NoRow
               /\ get_profile(database, db_call.username) = NoRow

\* the rows of a table other than those of a key
Others(rows, username) == SelectSeq(rows, LAMBDA r : r.username # username)

C26_ErrorsWithinRequests == error_count <= request_count

-----------------------------------------------------------------------------
(* The batch endpoint and the database                                     *)

\* what analyze_repository comes to for the i-th visited repository
AnalysisOf(i) == analyze_repository(Visited[i].clone_url)

\* the visited repositories that are analysed, not skipped, and whose
\* analyze_repository result carries no top-level error
CleanlyAnalysed ==
    {i \in 1..Len(Visited) :
        /\ Get(Visited[i], "size", 0) <= SkipSizeKb
        /\ AnalysisOf(i).raised = <<>>
        /\ "error" \notin DOMAIN AnalysisOf(i).result}

\* the authenticity scores of those repositories, in input order
CleanScores ==
    LET clean == SelectSeq([i \in 1..Len(Visited) |-> i],
                           LAMBDA i : i \in CleanlyAnalysed)
    IN  [k \in 1..Len(clean) |-> AnalysisOf(clean[k]).result.authenticity_score]

\* C25: in analyze_all_repositories every repository whose
\* analyze_repository result carries no top-level error is stored through
\* the database module and recorded in repository_analyses with its
\* analysis, not as an error entry, and overall_authenticity_score is the
\* floor of the mean of the authenticity scores of exactly those
\* repositories, 0 when there is none
C25_CleanResultsRecorded ==
    BatchRan =>
        /\ response.status_code = 200
        /\ \A i \in CleanlyAnalysed :
              LET entry == response.repository_analyses[i]
              IN  /\ "error" \notin DOMAIN entry
                  /\ "analysis" \in DOMAIN entry
                  /\ entry.analysis = AnalysisOf(i).result
        /\ response.overall_authenticity_score =
               IF CleanScores = <<>>
               THEN 0
               ELSE sum(CleanScores) \div Len(CleanScores)

\* the overall score of a batch in which a repository was cleanly analysed
\* with a score above 0
C25_ScoreLost ==
    /\ BatchRan
    /\ CleanScores # <<>>
    /\ sum(CleanScores) \div Len(CleanScores) > 0
    /\ response.overall_authenticity_score = 0

\* ---- C27 ----
ReturnedCalls == {i \in Invocations : calls[i].pc = "returned"}

\* C27: whenever an invocation of analyze_repository has returned, on the
\* success path, the clone-failure path or the too-large path, the directory
\* that mkdtemp made for it is no longer on disk, and every directory that
\* was removed was removed by the invocation it was made for
C27_TempDirRemoved ==
    /\ \A i \in ReturnedCalls : ~path_exists(disk, calls[i].temp_dir)
    /\ \A r \in removed : r.by = r.dir

\* an invocation returned on the too-large path while the clone of another
\* was on disk, after an earlier invocation had removed its own
C27_Witness ==
    \E i \in ReturnedCalls : \E j \in Invocations :
        /\ calls[i].remote.clone = "ok"
        /\ calls[i].remote.size_mb > max_size_mb
        /\ "error" \in DOMAIN calls[i].result
        /\ calls[j].pc = "cloned"
        /\ path_exists(disk, calls[j].temp_dir)
        /\ Cardinality(removed) >= 2

\* ---- C28 ----
\* C28: on the statistics of a non-empty commit sequence low_activity never
\* comes with no_collaboration, burst_activity or dominated_repo,
\* no_collaboration never comes with dominated_repo, dominated_repo comes
\* only with 21 commits or more, and no more than 5 of the 7 flags come
\* together
C28_FlagExclusions ==
    Analyzed =>
        /\ HasFlag("low_activity") =>
              /\ ~HasFlag("no_collaboration")
              /\ ~HasFlag("burst_activity")
              /\ ~HasFlag("dominated_repo")
        /\ HasFlag("no_collaboration") => ~HasFlag("dominated_repo")
        /\ HasFlag("dominated_repo") =>
              result.commit_analysis.total_commits >= 21
        /\ Len(result.red_flags) <= 5
        /\ Cardinality(Range(FlagTypes)) <= 5

\* five flags together, dominated_repo among them, on 21 commits
C28_Witness ==
    /\ Analyzed
    /\ Len(result.red_flags) = 5
    /\ HasFlag("dominated_repo")
    /\ result.commit_analysis.total_commits = 21

\* ---- C29 ----
\* 50 plus bonuses plus penalties of the returned statistics and flags
ScoreBeforeClamp ==
    apply_penalties(BaseScore + Bonuses(result.commit_analysis),
                    result.red_flags)

\* C29: the score before clamping never exceeds 100, so that only the lower
\* clamp changes a value, and a score of 100 comes only with all six bonuses
\* and no red flag
C29_UpperClampIdle ==
    Analyzed =>
        /\ ScoreBeforeClamp <= 100
        /\ result.authenticity_score = Max2(0, ScoreBeforeClamp)
        /\ result.authenticity_score = 100 =>
              /\ result.commit_analysis.total_commits >= 50
              /\ result.commit_analysis.unique_authors > 1
              /\ result.commit_analysis.days_active > 90
              /\ result.commit_analysis.generic_message_ratio < 30
              /\ result.red_flags = <<>>

\* the score before clamping is negative and the lower clamp raises it to 0
C29_Witness ==
    /\ Analyzed
    /\ ScoreBeforeClamp < 0
    /\ result.authenticity_score = 0

\* all six bonuses, no red flag and a score of 100
C29_FullScore ==
    /\ Analyzed
    /\ result.red_flags = <<>>
    /\ ScoreBeforeClamp = 100
    /\ result.authenticity_score = 100

\* ---- C30 ----
SingleCommit == Done /\ remote.clone = "ok" /\ Len(remote.commits) = 1

\* C30: a repository of exactly one commit has hour_concentration 1.0, gets
\* both low_activity and suspicious_timing and scores at most 15, whatever
\* the author, timestamp, size or message of the commit
C30_SingleCommitScore ==
    SingleCommit =>
        /\ Analyzed
        /\ result.commit_analysis.hour_concentration = 100
        /\ HasFlag("low_activity")
        /\ HasFlag("suspicious_timing")
        /\ result.authenticity_score <= 15

\* a single commit by bob, on Friday, with a small change, that scores the
\* full 15
C30_Witness ==
    /\ SingleCommit
    /\ remote.commits[1].author = "bob"
    /\ remote.commits[1].committed_date = T1 + 23
    /\ remote.commits[1].lines = <<10>>
    /\ result.authenticity_score = 15

====
